---- MODULE Spec2Model ----
(***************************************************************************)
(* A model of pdf_text_overlay (jijae92/WinOcr): the coordinate mapper     *)
(* (geometry.py), the alignment resolver and overlay engine (overlay.py)   *)
(* and the text normalizer (text_utils.py).                                *)
(*                                                                         *)
(* Python floats are modelled by exact rationals <<n, d>> in lowest terms  *)
(* with d > 0, so two numbers are equal iff their pairs are equal.         *)
(***************************************************************************)
EXTENDS Integers, Sequences, FiniteSets, TLC

VARIABLES
    call,          \* which entry point this behaviour exercises
    pc,            \* position inside that entry point
    args,          \* the arguments of the call (a record)
    result,        \* what the call returned or raised (a record)
    \* the locals and effects of apply_text_overlay / _overlay_single_page
    page_index,    \* index of the for loop over the document's pages
    alignment,     \* the AlignmentInfo of the page being processed
    entries,       \* the (text, bbox) entries of the page being processed
    entry_idx,     \* idx of the enumerate loop over entries (0-based)
    samples,       \* the calibration samples of the page being processed
    calib_log,     \* the calibration samples logged so far, one list per page
    inserted,      \* the insert_text calls made on the document, in order
    debug_payload, \* the diagnostic records collected so far
    files,         \* the temporary file, the destination and the diagnostic dump
    io             \* the writes made to the file system, in order

runVars == <<page_index, alignment, entries, entry_idx, samples, calib_log, inserted,
             debug_payload, files, io>>

vars == <<call, pc, args, result, page_index, alignment, entries, entry_idx, samples,
          calib_log, inserted, debug_payload, files, io>>

(***************************************************************************)
(* Exact arithmetic standing for Python's float arithmetic.                *)
(***************************************************************************)
Abs(x) == IF x < 0 THEN -x ELSE x

RECURSIVE GCD(_, _)
GCD(a, b) == IF b = 0 THEN a ELSE GCD(b, a % b)

\* the number n/d (d # 0) in lowest terms with a positive denominator
Rat(n, d) ==
    LET g == GCD(Abs(n), Abs(d))
        s == IF d < 0 THEN -1 ELSE 1
    IN  <<(s * n) \div g, (s * d) \div g>>

R(n) == <<n, 1>>

RAdd(a, b) == Rat(a[1] * b[2] + b[1] * a[2], a[2] * b[2])
RSub(a, b) == Rat(a[1] * b[2] - b[1] * a[2], a[2] * b[2])
RMul(a, b) == Rat(a[1] * b[1], a[2] * b[2])
RDiv(a, b) == Rat(a[1] * b[2], a[2] * b[1])
RLt(a, b) == a[1] * b[2] < b[1] * a[2]
RLe(a, b) == a[1] * b[2] <= b[1] * a[2]
RIsZero(a) == a[1] = 0
\* Python's max(a, b): the first argument unless the second is larger
RMax(a, b) == IF RLt(a, b) THEN b ELSE a

(***************************************************************************)
(* geometry.py                                                             *)
(***************************************************************************)
\* @dataclass Rect
Rect(x0, y0, x1, y1) == [x0 |-> x0, y0 |-> y0, x1 |-> x1, y1 |-> y1]
RectWidth(r) == RSub(r.x1, r.x0)
RectHeight(r) == RSub(r.y1, r.y0)

\* the floors of map_bbox_to_pdf: 0.1 pt for the extents, 2.0 pt for the font
MinExtentPt == Rat(1, 10)
MinFontSize == R(2)

\* raise ValueError(...)
ValueError == [kind |-> "ValueError"]

\* apply_rotation(point, page_rect, rotation)
apply_rotation(point, page_rect, rotation) ==
    LET x == point[1]
        y == point[2]
        rot == rotation % 360
    IN  CASE rot = 0 -> [kind |-> "point", value |-> <<x, y>>]
          [] rot = 90 -> [kind |-> "point", value |-> <<RSub(RectWidth(page_rect), y), x>>]
          [] rot = 180 -> [kind |-> "point",
                           value |-> <<RSub(RectWidth(page_rect), x), RSub(RectHeight(page_rect), y)>>]
          [] rot = 270 -> [kind |-> "point", value |-> <<y, RSub(RectHeight(page_rect), x)>>]
          [] OTHER -> ValueError

\* rotate_rect with the page height in place of the page width at 90 degrees
rotate_rect_by_height(rect, page_rect, rotation) ==
    LET rot == rotation % 360
        W == RectWidth(page_rect)
        H == RectHeight(page_rect)
    IN  CASE rot = 0 -> [kind |-> "rect", value |-> rect]
          [] rot = 180 -> [kind |-> "rect",
                           value |-> Rect(RSub(W, rect.x1), RSub(H, rect.y1),
                                          RSub(W, rect.x0), RSub(H, rect.y0))]
          [] rot = 90 -> [kind |-> "rect",
                          value |-> Rect(RSub(H, rect.y1), rect.x0, RSub(H, rect.y0), rect.x1)]
          [] rot = 270 -> [kind |-> "rect",
                           value |-> Rect(rect.y0, RSub(H, rect.x1), rect.y1, RSub(H, rect.x0))]
          [] OTHER -> ValueError

\* rotate_rect(rect, page_rect, rotation)
rotate_rect(rect, page_rect, rotation) ==
    LET rot == rotation % 360
        W == RectWidth(page_rect)
        H == RectHeight(page_rect)
    IN  CASE rot = 0 -> [kind |-> "rect", value |-> rect]
          [] rot = 180 -> [kind |-> "rect",
                           value |-> Rect(RSub(W, rect.x1), RSub(H, rect.y1),
                                          RSub(W, rect.x0), RSub(H, rect.y0))]
          [] rot = 90 -> [kind |-> "rect",
                          value |-> Rect(RSub(W, rect.y1), rect.x0, RSub(W, rect.y0), rect.x1)]
          [] rot = 270 -> [kind |-> "rect",
                           value |-> Rect(rect.y0, RSub(H, rect.x1), rect.y1, RSub(H, rect.x0))]
          [] OTHER -> ValueError

\* @dataclass MappingConfig
MappingConfig(image_rect, page_rect, width_px, height_px, offset_pt, scale_corr, rotation, deskew) ==
    [image_rect |-> image_rect, page_rect |-> page_rect,
     width_px |-> width_px, height_px |-> height_px,
     offset_pt |-> offset_pt, scale_corr |-> scale_corr,
     rotation |-> rotation, deskew |-> deskew]

\* the two axis scale factors of map_bbox_to_pdf (defined when both canvas sides are > 0)
scale_x(config) == RMul(RDiv(RectWidth(config.image_rect), config.width_px), config.scale_corr[1])
scale_y(config) == RMul(RDiv(RectHeight(config.image_rect), config.height_px), config.scale_corr[2])

\* a font size without its 2.0 pt floor
font_size_unfloored(height_pt, font_scale) == RMul(height_pt, font_scale)

\* font_size = max(height_pt * font_scale, 2.0)
font_size_of(height_pt, font_scale) == RMax(RMul(height_pt, font_scale), MinFontSize)

\* an extent without its 0.1 pt floor
clamp_extent_none(extent) == extent

\* width_pt = max(w_px * scale_x, 0.1); height_pt likewise
clamp_extent(extent) == RMax(extent, MinExtentPt)

\* if config.width_px <= 0 or config.height_px <= 0: raise
canvas_invalid(config) == RLe(config.width_px, R(0)) \/ RLe(config.height_px, R(0))

\* a guard that forgets the y axis
scale_invalid_x_only(sx, sy) == RIsZero(sx)

\* if scale_x == 0 or scale_y == 0: raise
scale_invalid(sx, sy) == RIsZero(sx) \/ RIsZero(sy)

\* map_bbox_to_pdf past its first guard: the scale factors and the placement
placement_of(bbox, baseline_ratio, font_scale, config) ==
    LET sx == scale_x(config)
        sy == scale_y(config)
    IN  IF scale_invalid(sx, sy)
        THEN ValueError
        ELSE
        LET x_px == bbox[1]
            y_px == bbox[2]
            w_px == bbox[3]
            h_px == bbox[4]
            offset_x == config.offset_pt[1]
            offset_y == config.offset_pt[2]
            x_pt == RAdd(RAdd(config.image_rect.x0, RMul(x_px, sx)), offset_x)
            y_bottom == RAdd(RSub(config.image_rect.y1, RMul(RAdd(y_px, h_px), sy)), offset_y)
            width_pt == clamp_extent(RMul(w_px, sx))
            height_pt == clamp_extent(RMul(h_px, sy))
            font_size == font_size_of(height_pt, font_scale)
            baseline == RAdd(y_bottom, RMul(font_size, baseline_ratio))
            rect == Rect(x_pt,
                         RSub(baseline, RMul(height_pt, RSub(R(1), baseline_ratio))),
                         RAdd(x_pt, width_pt),
                         RAdd(baseline, RMul(height_pt, baseline_ratio)))
            anchor == apply_rotation(<<x_pt, baseline>>, config.page_rect, config.rotation)
            rotated_rect == rotate_rect(rect, config.page_rect, config.rotation)
        IN  IF anchor.kind = "ValueError" \/ rotated_rect.kind = "ValueError"
            THEN ValueError
            ELSE [kind |-> "Placement",
                  anchor |-> anchor.value,
                  rect |-> rotated_rect.value,
                  font_size |-> font_size,
                  rotate |-> RAdd(R(config.rotation), config.deskew),
                  width_pt |-> width_pt,
                  height_pt |-> height_pt]

\* a mapper that also rejects a bbox without extent
map_bbox_to_pdf_rejecting_flat(bbox, baseline_ratio, font_scale, config) ==
    IF canvas_invalid(config) \/ RLe(bbox[3], R(0)) \/ RLe(bbox[4], R(0))
    THEN ValueError
    ELSE placement_of(bbox, baseline_ratio, font_scale, config)

\* map_bbox_to_pdf(bbox, baseline_ratio, font_scale, config)
map_bbox_to_pdf(bbox, baseline_ratio, font_scale, config) ==
    IF canvas_invalid(config)
    THEN ValueError
    ELSE placement_of(bbox, baseline_ratio, font_scale, config)

(***************************************************************************)
(* The coordinate mapper exercised on bounded inputs.                      *)
(***************************************************************************)
MaxBoxSide == 2
MaxGrid == 2

NoResult == [kind |-> "none"]

\* the overlay run before it starts: nothing processed, nothing written, the
\* destination path holding whatever it held before the run
RunIdle ==
    /\ page_index = 0
    /\ alignment = NoResult
    /\ entries = <<>>
    /\ entry_idx = 0
    /\ samples = <<>>
    /\ calib_log = <<>>
    /\ inserted = <<>>
    /\ debug_payload = <<>>
    /\ files = [tmp |-> "absent", out |-> "previous", dump |-> "absent"]
    /\ io = <<>>

\* the A4 page of the tests, in points
PageRect == Rect(R(0), R(0), R(595), R(842))

BBoxes ==
    {<<R(100), R(200), R(400), R(50)>>}
    \cup {<<R(10), R(10), R(20 * w), R(10 * h)>> : w \in -1..MaxBoxSide, h \in -1..MaxBoxSide}
Canvases == {<<R(2000), R(3000)>>, <<R(100), R(100)>>, <<R(0), R(100)>>, <<R(100), R(-5)>>}
ImageRects == {PageRect, Rect(R(50), R(100), R(300), R(400)), Rect(R(10), R(10), R(10), R(400))}
ScaleCorrs == {<<R(1), R(1)>>, <<R(1), R(0)>>, <<R(-2), Rat(1, 2)>>}
Offsets == {<<R(0), R(0)>>, <<R(5), R(-3)>>}
Rotations == {0, 90, 180, 270, 45}
BaselineRatios == {R(0), Rat(1, 5), R(1), Rat(3, 2)}
FontScales == {R(1), Rat(1, 10), R(3), R(-1)}

Configs ==
    {MappingConfig(ir, PageRect, c[1], c[2], off, sc, rot, R(0)) :
        ir \in ImageRects, c \in Canvases, off \in Offsets, sc \in ScaleCorrs, rot \in Rotations}

RotationPoints == {<<R(100 * i), R(100 * j)>> : i \in 0..MaxGrid, j \in 0..MaxGrid}
RotationPages == {PageRect, Rect(R(0), R(0), R(842), R(595)), Rect(R(0), R(0), R(300), R(300))}
RotationArgs == {0, 90, 180, 270, 360, 450, -90, 45}
RotationRects ==
    {Rect(R(100 * i), R(100 * j), R(100 * i + 20 * w), R(100 * j + 10 * h)) :
        i \in 0..MaxGrid, j \in 0..MaxGrid, w \in -1..MaxBoxSide, h \in -1..MaxBoxSide}

GeomInit ==
    /\ RunIdle
    /\ pc = "called"
    /\ result = NoResult
    /\ \/ /\ call = "apply_rotation"
          /\ args \in [point : RotationPoints, page_rect : RotationPages, rotation : RotationArgs]
       \/ /\ call = "rotate_rect"
          /\ args \in [rect : RotationRects, page_rect : RotationPages, rotation : RotationArgs]
       \/ /\ call = "map_bbox_to_pdf"
          /\ args \in [bbox : BBoxes, baseline_ratio : BaselineRatios,
                        font_scale : FontScales, config : Configs]

Outcome(r) == IF r.kind = "ValueError" THEN "raised" ELSE "returned"

CallApplyRotation ==
    /\ call = "apply_rotation"
    /\ pc = "called"
    /\ result' = apply_rotation(args.point, args.page_rect, args.rotation)
    /\ pc' = Outcome(result')
    /\ UNCHANGED <<call, args>>
    /\ UNCHANGED runVars

CallMapBbox ==
    /\ call = "map_bbox_to_pdf"
    /\ pc = "called"
    /\ result' = map_bbox_to_pdf(args.bbox, args.baseline_ratio, args.font_scale, args.config)
    /\ pc' = Outcome(result')
    /\ UNCHANGED <<call, args>>
    /\ UNCHANGED runVars

CallRotateRect ==
    /\ call = "rotate_rect"
    /\ pc = "called"
    /\ result' = rotate_rect(args.rect, args.page_rect, args.rotation)
    /\ pc' = Outcome(result')
    /\ UNCHANGED <<call, args>>
    /\ UNCHANGED runVars

GeomNext == CallApplyRotation \/ CallRotateRect \/ CallMapBbox

SpecGeom == GeomInit /\ [][GeomNext]_vars

(***************************************************************************)
(* Properties of the coordinate mapper (checked under SpecGeom).           *)
(***************************************************************************)
MapReturned == call = "map_bbox_to_pdf" /\ pc = "returned"
MapFinished == call = "map_bbox_to_pdf" /\ pc # "called"

\* the documented example: bbox (100,200,400,50), canvas 2000x3000 over the whole
\* 595x842 page, default offset and scale correction, rotation 0, font scale 1
IsDocExample ==
    /\ args.bbox = <<R(100), R(200), R(400), R(50)>>
    /\ args.config.width_px = R(2000) /\ args.config.height_px = R(3000)
    /\ args.config.image_rect = PageRect
    /\ args.config.offset_pt = <<R(0), R(0)>>
    /\ args.config.scale_corr = <<R(1), R(1)>>
    /\ args.config.rotation = 0
    /\ args.font_scale = R(1)

\* C1: apply_rotation maps (x,y) on a W x H page to (x,y), (H - y, x), (W - x, H - y),
\* (y, W - x) for rotation 0, 90, 180, 270.
C1_RotationFormula ==
    (call = "apply_rotation" /\ pc # "called" /\ args.rotation \in {0, 90, 180, 270}) =>
        LET x == args.point[1]
            y == args.point[2]
            W == RectWidth(args.page_rect)
            H == RectHeight(args.page_rect)
        IN  result = [kind |-> "point",
                      value |-> CASE args.rotation = 0 -> <<x, y>>
                                  [] args.rotation = 90 -> <<RSub(H, y), x>>
                                  [] args.rotation = 180 -> <<RSub(W, x), RSub(H, y)>>
                                  [] args.rotation = 270 -> <<y, RSub(W, x)>>]

\* C2: for rotation 0 the anchor is (image_rect.x0 + x*scale_x + offset_x,
\* y_bottom + font_size*baseline_ratio), y_bottom = image_rect.y1 - (y+h)*scale_y + offset_y,
\* scale = image_rect side / canvas side * scale_corr, font_size =
\* max(max(h*scale_y, 0.1) * font_scale, 2.0); the documented example gives x = 29.75 and
\* font_size = 50*842/3000.
C2_AnchorAtRotation0 ==
    (MapReturned /\ args.config.rotation = 0) =>
        LET c == args.config
            sx == RMul(RDiv(RSub(c.image_rect.x1, c.image_rect.x0), c.width_px), c.scale_corr[1])
            sy == RMul(RDiv(RSub(c.image_rect.y1, c.image_rect.y0), c.height_px), c.scale_corr[2])
            h_pt == RMul(args.bbox[4], sy)
            floored == IF RLt(h_pt, Rat(1, 10)) THEN Rat(1, 10) ELSE h_pt
            scaled == RMul(floored, args.font_scale)
            fs == IF RLt(scaled, R(2)) THEN R(2) ELSE scaled
            y_bottom == RAdd(RSub(c.image_rect.y1, RMul(RAdd(args.bbox[2], args.bbox[4]), sy)),
                             c.offset_pt[2])
        IN  /\ result.kind = "Placement"
            /\ result.font_size = fs
            /\ result.anchor = <<RAdd(RAdd(c.image_rect.x0, RMul(args.bbox[1], sx)), c.offset_pt[1]),
                                 RAdd(y_bottom, RMul(fs, args.baseline_ratio))>>
            /\ IsDocExample =>
                    /\ result.anchor[1] = Rat(2975, 100)
                    /\ result.font_size = Rat(50 * 842, 3000)

C2_Witness ==
    /\ MapReturned /\ IsDocExample /\ args.baseline_ratio = Rat(1, 5)
    /\ result.anchor[1] = Rat(119, 4)

\* C3: mapping raises, whatever the bbox, when a canvas side is <= 0 or an axis scale
\* factor (image_rect side / canvas side * scale correction) is zero.
C3_InvalidGeometryRaises ==
    MapFinished =>
        LET c == args.config
            badCanvas == RLe(c.width_px, R(0)) \/ RLe(c.height_px, R(0))
            zeroScale ==
                \/ RIsZero(RMul(RDiv(RSub(c.image_rect.x1, c.image_rect.x0), c.width_px), c.scale_corr[1]))
                \/ RIsZero(RMul(RDiv(RSub(c.image_rect.y1, c.image_rect.y0), c.height_px), c.scale_corr[2]))
        IN  (badCanvas \/ zeroScale) => (pc = "raised" /\ result = ValueError)

C3_Witness ==
    /\ call = "map_bbox_to_pdf" /\ pc = "raised"
    /\ ~canvas_invalid(args.config)
    /\ args.config.scale_corr[2] = R(0)
    /\ args.config.image_rect = PageRect
    /\ args.config.rotation = 0

\* C4: every returned Placement has width_pt >= 0.1, height_pt >= 0.1, font_size >= 2.0
\* and a rect with x1 > x0 and y1 > y0; a zero-size bbox on a valid configuration yields a
\* placement, not an error.
ZeroSizeBox == args.bbox[3] = R(0) /\ args.bbox[4] = R(0)

ValidGeometry ==
    /\ ~canvas_invalid(args.config)
    /\ ~scale_invalid(scale_x(args.config), scale_y(args.config))
    /\ args.config.rotation % 360 \in {0, 90, 180, 270}

C4_PlacementNonDegenerate ==
    MapFinished =>
        /\ result.kind = "Placement" =>
                /\ RLe(Rat(1, 10), result.width_pt)
                /\ RLe(Rat(1, 10), result.height_pt)
                /\ RLe(R(2), result.font_size)
                /\ RLt(result.rect.x0, result.rect.x1)
                /\ RLt(result.rect.y0, result.rect.y1)
        /\ (ZeroSizeBox /\ ValidGeometry) => result.kind = "Placement"

C4_Witness ==
    /\ MapReturned /\ ZeroSizeBox /\ args.config.rotation = 90
    /\ args.font_scale = Rat(1, 10) /\ args.baseline_ratio = Rat(3, 2)
    /\ result.width_pt = Rat(1, 10) /\ result.font_size = R(2)

\* C5: mapped onto the whole page with rotation 0, no offset, unit scale correction and
\* font scale 1, the baseline y is page_height_pt - (y + h*baseline_ratio) *
\* (page_height_pt / height_px).
C5_BaselineFromTop ==
    (/\ MapReturned
     /\ RLt(R(0), args.bbox[3]) /\ RLt(R(0), args.bbox[4])
     /\ args.config.rotation = 0
     /\ args.config.image_rect = args.config.page_rect
     /\ args.config.offset_pt = <<R(0), R(0)>>
     /\ args.config.scale_corr = <<R(1), R(1)>>
     /\ args.font_scale = R(1)) =>
        LET H == RectHeight(args.config.page_rect)
        IN  result.anchor[2] =
                RSub(H, RMul(RAdd(args.bbox[2], RMul(args.bbox[4], args.baseline_ratio)),
                             RDiv(H, args.config.height_px)))

(***************************************************************************)
(* overlay.py: the alignment resolver                                      *)
(***************************************************************************)
\* Python's None and a present value
None == [some |-> FALSE, value |-> 0]
Some(v) == [some |-> TRUE, value |-> v]

\* One piece of an --align payload: text that float()/int() accepts, or not.
Num(n) == [numeric |-> TRUE, value |-> n]
NotANumber == [numeric |-> FALSE, value |-> 0]

\* settings.align as the code reads it: what it equals or starts with, and the
\* pieces that data.split(",") (image-rect:) or split(":", 1)[1] (image:) yields
Align(prefix, fields) == [prefix |-> prefix, fields |-> fields]
ALIGN_AUTO == Align("auto", <<>>)
ALIGN_PAGE == Align("page", <<>>)

\* @dataclass AlignmentInfo
AlignmentInfo(rect, width_px, height_px, rotation, xref, source) ==
    [kind |-> "AlignmentInfo", rect |-> rect, width_px |-> width_px, height_px |-> height_px,
     rotation |-> rotation, xref |-> xref, source |-> source]

\* _parse_manual_rect(data): float() of every piece, then the count
_parse_manual_rect(fields) ==
    IF \E i \in 1..Len(fields) : ~fields[i].numeric
    THEN ValueError
    ELSE IF Len(fields) # 4
    THEN ValueError
    ELSE [kind |-> "rect",
          value |-> Rect(R(fields[1].value), R(fields[2].value), R(fields[3].value), R(fields[4].value))]

\* a fallback that hands back the OCR page's size without checking it
_page_dimensions_px_lenient(ocr_page, settings) ==
    [kind |-> "dims", value |-> <<ocr_page.width_px, ocr_page.height_px>>]

\* _page_dimensions_px(ocr_page, settings): both remaining paths raise
_page_dimensions_px(ocr_page, settings) ==
    IF ~RIsZero(ocr_page.width_px) /\ ~RIsZero(ocr_page.height_px)
    THEN [kind |-> "dims", value |-> <<ocr_page.width_px, ocr_page.height_px>>]
    ELSE IF ~settings.dpi.some \/ settings.dpi.value = 0
    THEN ValueError
    ELSE ValueError

Area(r) == RMul(RectWidth(r), RectHeight(r))

\* a max() that keeps the last of several largest items
LastLargest(rects) ==
    CHOOSE i \in 1..Len(rects) :
        /\ \A j \in 1..(i - 1) : RLe(Area(rects[j]), Area(rects[i]))
        /\ \A j \in (i + 1)..Len(rects) : RLt(Area(rects[j]), Area(rects[i]))

\* Python's max(items, key=area): the index of the first item of largest area
FirstLargest(rects) ==
    CHOOSE i \in 1..Len(rects) :
        /\ \A j \in 1..(i - 1) : RLt(Area(rects[j]), Area(rects[i]))
        /\ \A j \in (i + 1)..Len(rects) : RLe(Area(rects[j]), Area(rects[i]))

\* a candidates loop that forgets to compare the xref with the target
RECURSIVE CandidatesAnyXref(_, _)
CandidatesAnyXref(image_entries, xref_target) ==
    IF image_entries = <<>>
    THEN <<>>
    ELSE LET entry == Head(image_entries)
             rest == CandidatesAnyXref(Tail(image_entries), xref_target)
         IN  IF entry.rects = <<>>
             THEN rest
             ELSE <<[xref |-> entry.xref, rect |-> entry.rects[1], info |-> entry.info]>> \o rest

\* the candidates loop: one (entry, largest rect) per image that matches the
\* target and has a rendered rectangle
RECURSIVE Candidates(_, _)
Candidates(image_entries, xref_target) ==
    IF image_entries = <<>>
    THEN <<>>
    ELSE LET entry == Head(image_entries)
             rest == Candidates(Tail(image_entries), xref_target)
         IN  IF xref_target.some /\ xref_target.value # entry.xref
             THEN rest
             ELSE IF entry.rects = <<>>
             THEN rest
             ELSE <<[xref |-> entry.xref, rect |-> entry.rects[FirstLargest(entry.rects)],
                     info |-> entry.info]>> \o rest

RectsOf(candidates) == [i \in 1..Len(candidates) |-> candidates[i].rect]

\* chosen = candidates[0] for a target, else max(candidates, key=area)
Chosen(candidates, xref_target) ==
    IF xref_target.some THEN candidates[1] ELSE candidates[FirstLargest(RectsOf(candidates))]

\* x or y on numbers
OrElse(x, y) == IF ~RIsZero(x) THEN x ELSE y

\* source=f"image:xref={xref}"
ImageSource(xref) == "image:xref=" \o ToString(xref)

\* lines 167-184: the pixel size of the chosen image, with its two fallbacks
ImageAlignment(chosen, page, ocr_page, settings, rotation) ==
    LET info == chosen.info
        w1 == IF info.has_width THEN info.width ELSE OrElse(ocr_page.width_px, R(0))
        h1 == IF info.has_height THEN info.height ELSE OrElse(ocr_page.height_px, R(0))
        missing1 == RIsZero(w1) \/ RIsZero(h1)
        w2 == IF missing1 THEN OrElse(ocr_page.width_px, R(0)) ELSE w1
        h2 == IF missing1 THEN OrElse(ocr_page.height_px, R(0)) ELSE h1
        missing2 == RIsZero(w2) \/ RIsZero(h2)
        dims == _page_dimensions_px(ocr_page, settings)
    IN  IF missing2 /\ dims.kind = "ValueError"
        THEN ValueError
        ELSE AlignmentInfo(chosen.rect,
                           IF missing2 THEN dims.value[1] ELSE w2,
                           IF missing2 THEN dims.value[2] ELSE h2,
                           rotation, Some(chosen.xref), ImageSource(chosen.xref))

\* rotation = page.rotation unless settings.rotate_override is not None
EffectiveRotation(page, settings) ==
    IF settings.rotate_override.some THEN settings.rotate_override.value ELSE page.rotation

\* _determine_alignment(doc, page, ocr_page, settings)
_determine_alignment(page, ocr_page, settings) ==
    LET page_rect == page.rect
        rotation == EffectiveRotation(page, settings)
        align == IF settings.align.prefix = "" THEN ALIGN_AUTO ELSE settings.align
        dims == _page_dimensions_px(ocr_page, settings)
    IN  IF align = ALIGN_PAGE
        THEN IF dims.kind = "ValueError"
             THEN ValueError
             ELSE AlignmentInfo(page_rect, dims.value[1], dims.value[2], rotation, None, "page")
        ELSE IF align.prefix = "image-rect:"
        THEN LET rect == _parse_manual_rect(align.fields)
             IN  IF rect.kind = "ValueError"
                 THEN ValueError
                 ELSE IF (RIsZero(ocr_page.width_px) \/ RIsZero(ocr_page.height_px))
                         /\ dims.kind = "ValueError"
                 THEN ValueError
                 ELSE AlignmentInfo(rect.value,
                                    IF RIsZero(ocr_page.width_px) THEN dims.value[1] ELSE ocr_page.width_px,
                                    IF RIsZero(ocr_page.height_px) THEN dims.value[2] ELSE ocr_page.height_px,
                                    rotation, None, "manual")
        ELSE IF align.prefix = "image:" /\ ~align.fields[1].numeric
        THEN ValueError
        ELSE
        LET xref_target == IF align.prefix = "image:" THEN Some(align.fields[1].value) ELSE None
            candidates == Candidates(page.images, xref_target)
        IN  IF candidates = <<>>
            THEN IF dims.kind = "ValueError"
                 THEN ValueError
                 ELSE AlignmentInfo(page_rect, dims.value[1], dims.value[2], rotation, None,
                                    "page-fallback")
            ELSE ImageAlignment(Chosen(candidates, xref_target), page, ocr_page, settings, rotation)

(***************************************************************************)
(* The alignment resolver exercised on bounded inputs.                     *)
(***************************************************************************)
MaxImages == 2

ImageInfo(has_width, width, has_height, height) ==
    [has_width |-> has_width, width |-> width, has_height |-> has_height, height |-> height]

\* page.get_images / page.get_image_rects / doc.extract_image for one image:
\* two images of equal rendered area (one without pixel metadata), one that is
\* never rendered, and a large one rendered twice whose metadata lacks a height
ImageEntries ==
    {[xref |-> 5, rects |-> <<Rect(R(0), R(0), R(200), R(300))>>,
      info |-> ImageInfo(TRUE, R(2000), TRUE, R(3000))],
     [xref |-> 7, rects |-> <<Rect(R(100), R(100), R(400), R(300))>>,
      info |-> ImageInfo(TRUE, R(0), TRUE, R(0))],
     [xref |-> 9, rects |-> <<>>,
      info |-> ImageInfo(TRUE, R(800), TRUE, R(600))],
     [xref |-> 11, rects |-> <<Rect(R(0), R(0), R(10), R(10)), Rect(R(50), R(50), R(450), R(650))>>,
      info |-> ImageInfo(TRUE, R(1200), FALSE, R(0))]}

SeqsUpTo(S, n) == UNION {[1..k -> S] : k \in 0..n}

AlignPages ==
    {[rect |-> PageRect, rotation |-> 90, images |-> imgs] : imgs \in SeqsUpTo(ImageEntries, MaxImages)}

OcrCanvases ==
    {[width_px |-> R(w), height_px |-> R(h), rotation |-> rot] :
        w \in {0, 1000}, h \in {0, 1500}, rot \in {None, Some(270)}}

Aligns ==
    {ALIGN_AUTO, ALIGN_PAGE, Align("", <<>>),
     Align("image-rect:", <<Num(10), Num(20), Num(500), Num(700)>>),
     Align("image-rect:", <<Num(10), Num(20), Num(500)>>),
     Align("image-rect:", <<Num(10), NotANumber, Num(500), Num(700)>>),
     Align("image:", <<Num(5)>>), Align("image:", <<Num(9)>>), Align("image:", <<Num(99)>>),
     Align("image:", <<NotANumber>>)}

AlignSettings ==
    {[align |-> a, rotate_override |-> ro, dpi |-> dpi] :
        a \in Aligns, ro \in {None, Some(0), Some(180)}, dpi \in {None, Some(300)}}

AlignInit ==
    /\ RunIdle
    /\ call = "_determine_alignment"
    /\ pc = "called"
    /\ result = NoResult
    /\ args \in [page : AlignPages, ocr_page : OcrCanvases, settings : AlignSettings]

CallDetermineAlignment ==
    /\ call = "_determine_alignment"
    /\ pc = "called"
    /\ result' = _determine_alignment(args.page, args.ocr_page, args.settings)
    /\ pc' = Outcome(result')
    /\ UNCHANGED <<call, args>>
    /\ UNCHANGED runVars

AlignNext == CallDetermineAlignment

SpecAlign == AlignInit /\ [][AlignNext]_vars

(***************************************************************************)
(* Properties of the alignment resolver (checked under SpecAlign).         *)
(***************************************************************************)
AlignFinished == call = "_determine_alignment" /\ pc # "called"
AlignReturned == call = "_determine_alignment" /\ pc = "returned"

\* the images of the page that have a rendered rectangle
Rendered(images) == {i \in 1..Len(images) : images[i].rects # <<>>}

\* the page holds no rendered image with the reference the mode asks for
RefAbsent ==
    /\ args.settings.align.prefix = "image:"
    /\ args.settings.align.fields[1].numeric
    /\ \A i \in Rendered(args.page.images) :
            args.page.images[i].xref # args.settings.align.fields[1].value

OcrCanvasKnown == ~RIsZero(args.ocr_page.width_px) /\ ~RIsZero(args.ocr_page.height_px)

IsPageFallback ==
    /\ pc = "returned"
    /\ result.kind = "AlignmentInfo"
    /\ result.source = "page-fallback"
    /\ result.rect = args.page.rect

\* C7 (as claimed): with image:<ref> and no such rendered image on the page, resolution
\* never raises, for any OCR page: it returns the whole page rect tagged page-fallback.
C7_AbsentRefNeverRaises == (AlignFinished /\ RefAbsent) => IsPageFallback

\* C7 (amended): with image:<ref> and no such rendered image on the page, resolution
\* returns the whole page rect tagged page-fallback when the OCR page's width_px and
\* height_px are both non-zero, and raises when one of them is zero.
C7_AbsentRefFallsBack ==
    (AlignFinished /\ RefAbsent) =>
        IF OcrCanvasKnown
        THEN IsPageFallback /\ result.width_px = args.ocr_page.width_px
                            /\ result.height_px = args.ocr_page.height_px
        ELSE pc = "raised" /\ result = ValueError

C7_Witness ==
    /\ AlignFinished /\ RefAbsent /\ OcrCanvasKnown /\ IsPageFallback
    /\ args.settings.align.fields[1].value = 9
    /\ \E i \in 1..Len(args.page.images) : args.page.images[i].xref = 9

\* C8: a returned AlignmentInfo has width_px # 0, height_px # 0 and a source tag among
\* page, manual, image:xref=N, page-fallback; when no source gives non-zero dimensions
\* the resolver raises.
SourceTags ==
    {"page", "manual", "page-fallback"} \cup {"image:xref=" \o ToString(e.xref) : e \in ImageEntries}

C8_ReturnedDimsNonZero ==
    AlignFinished =>
        /\ result.kind = "AlignmentInfo" =>
                /\ ~RIsZero(result.width_px)
                /\ ~RIsZero(result.height_px)
                /\ result.source \in SourceTags
        /\ (~OcrCanvasKnown /\ pc = "returned") =>
                /\ result.xref.some
                /\ \E i \in 1..Len(args.page.images) :
                        /\ args.page.images[i].xref = result.xref.value
                        /\ args.page.images[i].info.has_width
                        /\ ~RIsZero(args.page.images[i].info.width)

C8_Witness ==
    /\ AlignReturned
    /\ result.source = "image:xref=7"
    /\ result.width_px = R(1000) /\ result.height_px = R(1500)

\* C9: in auto mode the resolver targets the image whose rendered rectangle has the
\* largest area of all images on the page, the first encountered one on a tie; with no
\* rendered image it returns whole-page alignment tagged page-fallback.
IsAuto == args.settings.align.prefix \in {"auto", ""}

\* the largest rendered area of image i
MaxAreaOf(image) ==
    CHOOSE a \in {Area(image.rects[k]) : k \in 1..Len(image.rects)} :
        \A k \in 1..Len(image.rects) : RLe(Area(image.rects[k]), a)

C9_AutoPicksLargest ==
    (AlignFinished /\ IsAuto) =>
        LET images == args.page.images
            rendered == Rendered(images)
        IN  IF rendered = {}
            THEN IF OcrCanvasKnown THEN IsPageFallback ELSE pc = "raised"
            ELSE LET best == CHOOSE i \in rendered :
                                /\ \A j \in rendered : RLe(MaxAreaOf(images[j]), MaxAreaOf(images[i]))
                                /\ \A j \in rendered :
                                        j < i => RLt(MaxAreaOf(images[j]), MaxAreaOf(images[i]))
                 IN  /\ pc = "raised" => ~OcrCanvasKnown
                     /\ pc = "returned" =>
                        /\ result.xref = Some(images[best].xref)
                        /\ result.source = ImageSource(images[best].xref)
                        /\ Area(result.rect) = MaxAreaOf(images[best])
                        /\ \E k \in 1..Len(images[best].rects) : result.rect = images[best].rects[k]

C9_Witness ==
    /\ AlignReturned /\ IsAuto
    /\ Len(args.page.images) = 2
    /\ args.page.images[1].xref = 7 /\ args.page.images[2].xref = 5
    /\ result.xref = Some(7)

(***************************************************************************)
(* text_utils.py.  A str is a sequence of Unicode code points.             *)
(***************************************************************************)
SPACE == 32
HYPHEN == 45
ZWSP == 8203
ZWNJ == 8204
ZWJ == 8205
BOM == 65279

Str(chars) == [kind |-> "str", value |-> chars]
\* ord("") in is_cjk: TypeError
TypeError == [kind |-> "TypeError"]

\* a variant that also counts the Hangul syllables U+AC00..U+D7A3
is_cjk_with_hangul(code) ==
    \/ 19968 <= code /\ code <= 40959
    \/ 13312 <= code /\ code <= 19903
    \/ 131072 <= code /\ code <= 183983
    \/ 63744 <= code /\ code <= 64255
    \/ 44032 <= code /\ code <= 55203

\* is_cjk(char)
is_cjk(code) ==
    \/ 19968 <= code /\ code <= 40959      \* 0x4E00..0x9FFF
    \/ 13312 <= code /\ code <= 19903      \* 0x3400..0x4DBF
    \/ 131072 <= code /\ code <= 183983    \* 0x20000..0x2CEAF
    \/ 63744 <= code /\ code <= 64255      \* 0xF900..0xFAFF

\* str.isspace() of one character (also what str.split() and str.strip() treat as blank)
isspace(code) ==
    \/ code \in 9..13 \/ code \in 28..32 \/ code = 133 \/ code = 160
    \/ code = 5760 \/ code \in 8192..8202 \/ code \in {8232, 8233, 8239, 8287, 12288}

\* str.islower() of one character, for Basic Latin and Latin-1
islower(code) ==
    \/ code \in 97..122 \/ code \in {170, 181, 186} \/ code \in 223..246 \/ code \in 248..255

\* unicodedata.normalize("NFKC", c) for one character: the compatibility spaces
\* become U+0020, fullwidth ASCII (U+FF01..U+FF5E) becomes ASCII, the ligature
\* U+FB01 becomes "fi"; the other characters the model uses are NFKC-stable
NFKCChar(code) ==
    IF code \in {160, 8194, 8195, 8201, 12288} THEN <<SPACE>>
    ELSE IF code \in 65281..65374 THEN <<code - 65248>>
    ELSE IF code = 64257 THEN <<102, 105>>
    ELSE <<code>>

RECURSIVE NFKC(_)
NFKC(text) == IF text = <<>> THEN <<>> ELSE NFKCChar(Head(text)) \o NFKC(Tail(text))

\* a variant that removes U+200B like the other zero-width characters
RECURSIVE ReplaceZeroWidthDropping(_)
ReplaceZeroWidthDropping(text) ==
    IF text = <<>> THEN <<>>
    ELSE LET c == Head(text)
         IN  (IF c \in {ZWSP, ZWNJ, ZWJ, BOM} THEN <<>> ELSE <<c>>)
             \o ReplaceZeroWidthDropping(Tail(text))

\* .replace(U+200B, " ").replace(U+200C, "").replace(U+200D, "").replace(U+FEFF, "")
RECURSIVE ReplaceZeroWidth(_)
ReplaceZeroWidth(text) ==
    IF text = <<>> THEN <<>>
    ELSE LET c == Head(text)
         IN  (IF c = ZWSP THEN <<SPACE>> ELSE IF c \in {ZWNJ, ZWJ, BOM} THEN <<>> ELSE <<c>>)
             \o ReplaceZeroWidth(Tail(text))

\* str.split(): the maximal runs of non-blank characters
RECURSIVE SplitFrom(_, _)
SplitFrom(text, word) ==
    IF text = <<>>
    THEN IF word = <<>> THEN <<>> ELSE <<word>>
    ELSE IF isspace(Head(text))
    THEN (IF word = <<>> THEN <<>> ELSE <<word>>) \o SplitFrom(Tail(text), <<>>)
    ELSE SplitFrom(Tail(text), Append(word, Head(text)))

split(text) == SplitFrom(text, <<>>)

\* " ".join(words)
RECURSIVE join(_)
join(words) ==
    IF words = <<>> THEN <<>>
    ELSE IF Len(words) = 1 THEN words[1]
    ELSE words[1] \o <<SPACE>> \o join(Tail(words))

\* str.strip()
RECURSIVE lstrip(_)
lstrip(text) == IF text # <<>> /\ isspace(Head(text)) THEN lstrip(Tail(text)) ELSE text

RECURSIVE rstrip(_)
rstrip(text) ==
    IF text # <<>> /\ isspace(text[Len(text)]) THEN rstrip(SubSeq(text, 1, Len(text) - 1)) ELSE text

strip(text) == rstrip(lstrip(text))

\* whether the loop of _trim_cjk_spaces reaches is_cjk("") at 1-based position i: a
\* blank first character, or a blank last character after a CJK character
TrimRaisesAt(text, i) ==
    /\ isspace(text[i])
    /\ \/ i = 1
       \/ i = Len(text) /\ is_cjk(text[i - 1])

\* whether the loop drops the blank at position i
TrimDropsAt(text, i) ==
    /\ isspace(text[i])
    /\ 1 < i /\ i < Len(text)
    /\ is_cjk(text[i - 1]) /\ is_cjk(text[i + 1])

RECURSIVE KeepFrom(_, _)
KeepFrom(text, i) ==
    IF i > Len(text) THEN <<>>
    ELSE (IF TrimDropsAt(text, i) THEN <<>> ELSE <<text[i]>>) \o KeepFrom(text, i + 1)

\* _trim_cjk_spaces(text)
_trim_cjk_spaces(text) ==
    IF text = <<>> THEN Str(text)
    ELSE IF \E i \in 1..Len(text) : TrimRaisesAt(text, i) THEN TypeError
    ELSE Str(KeepFrom(text, 1))

\* normalize_token(text, keep_spaces, cjk_join)
normalize_token(text, keep_spaces, cjk_join) ==
    LET replaced == ReplaceZeroWidth(NFKC(text))
        spaced == IF ~keep_spaces THEN join(split(replaced)) ELSE replaced
    IN  IF cjk_join THEN _trim_cjk_spaces(spaced) ELSE Str(spaced)

\* a variant that merges whatever the case of the next line's first character
ContinuesWordAnyCase(buffer, segment) ==
    /\ buffer # <<>> /\ buffer[Len(buffer)] = HYPHEN
    /\ segment # <<>>

\* buffer.endswith("-") and segment and segment[0].islower()
ContinuesWord(buffer, segment) ==
    /\ buffer # <<>> /\ buffer[Len(buffer)] = HYPHEN
    /\ segment # <<>> /\ islower(segment[1])

\* a blank line that flushes the buffer and emits nothing for itself
FlushBlankSilently(buffer, out) ==
    IF buffer # <<>> THEN Append(out, buffer) ELSE out

\* a blank line: the buffer, if any, is appended, then the placeholder ""
FlushBlank(buffer, out) ==
    (IF buffer # <<>> THEN Append(out, buffer) ELSE out) \o <<<<>>>>

\* the loop of dehyphenize from the current buffer and result
RECURSIVE DehyphenizeFrom(_, _, _)
DehyphenizeFrom(lines, buffer, out) ==
    IF lines = <<>>
    THEN IF buffer # <<>> THEN Append(out, buffer) ELSE out
    ELSE LET segment == strip(Head(lines))
         IN  IF segment = <<>>
             THEN DehyphenizeFrom(Tail(lines), <<>>, FlushBlank(buffer, out))
             ELSE IF ContinuesWord(buffer, segment)
             THEN DehyphenizeFrom(Tail(lines), SubSeq(buffer, 1, Len(buffer) - 1) \o segment, out)
             ELSE DehyphenizeFrom(Tail(lines), segment,
                                  IF buffer # <<>> THEN Append(out, buffer) ELSE out)

\* dehyphenize(lines)
dehyphenize(lines) == DehyphenizeFrom(lines, <<>>, <<>>)

(***************************************************************************)
(* overlay.py: the overlay engine                                          *)
(***************************************************************************)
\* @dataclass OverlaySettings with its defaults (font_path left out; dump_debug_json
\* is whether a path is set)
DefaultSettings ==
    [method |-> "invisible", granularity |-> "word", baseline_ratio |-> Rat(15, 100),
     font_scale |-> R(1), keep_spaces |-> FALSE, dehyphen |-> FALSE, cjk_join |-> FALSE,
     debug_overlay |-> FALSE, visible_qa |-> FALSE, pdfa |-> FALSE, dpi |-> None,
     align |-> ALIGN_AUTO, offset_pt |-> <<R(0), R(0)>>, scale_corr |-> <<R(1), R(1)>>,
     rotate_override |-> None, deskew |-> R(0), calibrate |-> 0, dump_debug_json |-> FALSE]

\* @dataclass OCRWord / OCRLine, as far as the engine reads them
Entry(text, bbox) == [text |-> text, bbox |-> bbox]

\* @dataclass OCRPage
OCRPage(index, width_px, height_px, rotation, words, lines) ==
    [index |-> index, width_px |-> width_px, height_px |-> height_px, rotation |-> rotation,
     words |-> words, lines |-> lines]

\* page_map = {page.index: page for page in pages}; page_map.get(index)
PageMapGet(pages, index) ==
    LET at == {i \in 1..Len(pages) : pages[i].index = index}
    IN  IF at = {} THEN None
        ELSE Some(pages[CHOOSE i \in at : \A j \in at : j <= i])

\* _iter_granularity(page, granularity)
_iter_granularity(page, granularity) == IF granularity = "line" THEN page.lines ELSE page.words

\* zip(normalized_lines, [bbox for _, bbox in entries]): positional, to the shorter length
Rezip(texts, base) ==
    [i \in 1..(IF Len(texts) < Len(base) THEN Len(texts) ELSE Len(base)) |->
        Entry(texts[i], base[i].bbox)]

\* lines 224-230: the entries of a page, re-paired after dehyphenation
BuildEntries(ocr_page, settings) ==
    LET base == _iter_granularity(ocr_page, settings.granularity)
        normalized == [i \in 1..Len(base) |->
                          normalize_token(base[i].text, settings.keep_spaces, settings.cjk_join)]
    IN  IF settings.dehyphen /\ settings.granularity = "line"
        THEN IF \E i \in 1..Len(base) : normalized[i].kind = "TypeError"
             THEN TypeError
             ELSE [kind |-> "entries",
                   value |-> Rezip(dehyphenize([i \in 1..Len(base) |-> normalized[i].value]), base)]
        ELSE [kind |-> "entries", value |-> base]

\* MappingConfig(...) of _overlay_single_page
MappingFor(page, align_info, settings) ==
    MappingConfig(align_info.rect, page.rect, align_info.width_px, align_info.height_px,
                  settings.offset_pt, settings.scale_corr, align_info.rotation, settings.deskew)

\* method = settings.method; if settings.visible_qa: method = "visible"
EffectiveMethod(settings) == IF settings.visible_qa THEN "visible" ELSE settings.method

\* _resolve_render_mode(method)
_resolve_render_mode(method) ==
    IF method = "opacity"
    THEN [render_mode |-> 0, color |-> "black", opacity |-> Some(Rat(2, 100))]
    ELSE IF method = "visible"
    THEN [render_mode |-> 0, color |-> "gray", opacity |-> Some(R(1))]
    ELSE [render_mode |-> 3, color |-> "none", opacity |-> None]

\* fitz_page.insert_text(...) with its options, and whether a rectangle is drawn
\* around the entry: never, because the only statement that would draw one
\* (line 282) names draw_visible_text, which debug.py does not define
Insertion(n, text, bbox, placement, settings) ==
    LET mode == _resolve_render_mode(EffectiveMethod(settings))
    IN  [page |-> n, text |-> text, bbox_px |-> bbox,
         anchor |-> placement.anchor, rect |-> placement.rect,
         font_size |-> placement.font_size, rotate |-> placement.rotate,
         render_mode |-> mode.render_mode, color |-> mode.color, opacity |-> mode.opacity,
         visible_rect |-> FALSE]

\* a calibration sample / a diagnostic record
Sample(text, bbox, placement) ==
    [text |-> text, bbox_px |-> bbox, anchor_pt |-> placement.anchor,
     font_size |-> placement.font_size]

DebugRecord(n, text, bbox, placement) ==
    [page |-> n, text |-> text, bbox_px |-> bbox, rect_pt |-> placement.rect,
     anchor_pt |-> placement.anchor, font_size |-> placement.font_size]

(***************************************************************************)
(* apply_text_overlay as a state machine.  pc: start -> pages -> entries   *)
(* -> pages ... -> save -> replace | pdfa -> dump -> done, or raised.      *)
(***************************************************************************)
InRun(at) == call = "apply_text_overlay" /\ pc = at

Settings == args.settings
DocPage == args.doc[page_index + 1]
OcrPage == PageMapGet(args.pages, page_index)

\* the exception leaves apply_text_overlay
Raise(exc) == pc' = "raised" /\ result' = exc

\* lines 65-70: open the document, register the font, build page_map
OpenDocument ==
    /\ InRun("start")
    /\ pc' = "pages"
    /\ page_index' = 0
    /\ UNCHANGED <<call, args, result, alignment, entries, entry_idx, samples, calib_log,
                   inserted, debug_payload, files, io>>

\* a variant in which a page without OCR data ends the page loop (break for continue)
SkipPageStops ==
    /\ InRun("pages")
    /\ page_index < Len(args.doc)
    /\ ~OcrPage.some
    /\ page_index' = Len(args.doc)
    /\ UNCHANGED <<call, pc, args, result, alignment, entries, entry_idx, samples, calib_log,
                   inserted, debug_payload, files, io>>

\* lines 74-77: no OCR data for this page
SkipPage ==
    /\ InRun("pages")
    /\ page_index < Len(args.doc)
    /\ ~OcrPage.some
    /\ page_index' = page_index + 1
    /\ UNCHANGED <<call, pc, args, result, alignment, entries, entry_idx, samples, calib_log,
                   inserted, debug_payload, files, io>>

\* line 79 and lines 213-238: alignment resolved, the page's entries listed
AlignPage ==
    /\ InRun("pages")
    /\ page_index < Len(args.doc)
    /\ OcrPage.some
    /\ LET info == _determine_alignment(DocPage, OcrPage.value, Settings)
           listed == BuildEntries(OcrPage.value, Settings)
       IN  /\ info.kind = "AlignmentInfo"
           /\ alignment' = info
           /\ IF listed.kind = "TypeError"
              THEN Raise(TypeError) /\ UNCHANGED <<entries, entry_idx, samples>>
              ELSE /\ entries' = listed.value
                   /\ entry_idx' = 0
                   /\ samples' = <<>>
                   /\ pc' = "entries"
                   /\ UNCHANGED result
    /\ UNCHANGED <<call, args, page_index, calib_log, inserted, debug_payload, files, io>>

\* a variant in which a page whose alignment cannot be resolved is passed over
AlignPageRaisesSkipping ==
    /\ InRun("pages")
    /\ page_index < Len(args.doc)
    /\ OcrPage.some
    /\ _determine_alignment(DocPage, OcrPage.value, Settings).kind = "ValueError"
    /\ page_index' = page_index + 1
    /\ UNCHANGED <<call, pc, args, result, alignment, entries, entry_idx, samples, calib_log,
                   inserted, debug_payload, files, io>>

\* line 79: _determine_alignment raises and nothing catches it
AlignPageRaises ==
    /\ InRun("pages")
    /\ page_index < Len(args.doc)
    /\ OcrPage.some
    /\ _determine_alignment(DocPage, OcrPage.value, Settings).kind = "ValueError"
    /\ Raise(ValueError)
    /\ UNCHANGED <<call, args, page_index, alignment, entries, entry_idx, samples, calib_log,
                   inserted, debug_payload, files, io>>

CurrentEntry == entries[entry_idx + 1]
CurrentText ==
    normalize_token(CurrentEntry.text, Settings.keep_spaces, Settings.cjk_join)
CurrentPlacement ==
    map_bbox_to_pdf(CurrentEntry.bbox, Settings.baseline_ratio, Settings.font_scale,
                    MappingFor(DocPage, alignment, Settings))

\* a variant without the "if not text: continue" guard: the empty text is inserted
SkipBlankEntryInserting ==
    /\ InRun("entries")
    /\ entry_idx < Len(entries)
    /\ CurrentText.kind = "str"
    /\ CurrentText.value = <<>>
    /\ CurrentPlacement.kind = "Placement"
    /\ inserted' = Append(inserted,
                          Insertion(page_index, CurrentText.value, CurrentEntry.bbox,
                                    CurrentPlacement, Settings))
    /\ entry_idx' = entry_idx + 1
    /\ UNCHANGED <<call, pc, args, result, page_index, alignment, entries, samples, calib_log,
                   debug_payload, files, io>>

\* lines 241-243: the normalized text is empty (or normalize_token raises)
SkipBlankEntry ==
    /\ InRun("entries")
    /\ entry_idx < Len(entries)
    /\ IF CurrentText.kind = "TypeError" THEN TRUE ELSE CurrentText.value = <<>>
    /\ IF CurrentText.kind = "TypeError"
       THEN Raise(TypeError) /\ UNCHANGED entry_idx
       ELSE entry_idx' = entry_idx + 1 /\ UNCHANGED <<pc, result>>
    /\ UNCHANGED <<call, args, page_index, alignment, entries, samples, calib_log, inserted,
                   debug_payload, files, io>>

\* lines 244-253: map_bbox_to_pdf raises ValueError, the entry is skipped
SkipUnmappableEntry ==
    /\ InRun("entries")
    /\ entry_idx < Len(entries)
    /\ CurrentText.kind = "str"
    /\ CurrentText.value # <<>>
    /\ CurrentPlacement.kind = "ValueError"
    /\ entry_idx' = entry_idx + 1
    /\ UNCHANGED <<call, pc, args, result, page_index, alignment, entries, samples, calib_log,
                   inserted, debug_payload, files, io>>

\* lines 255-298: the entry is placed
InsertText ==
    /\ InRun("entries")
    /\ entry_idx < Len(entries)
    /\ CurrentText.kind = "str"
    /\ CurrentText.value # <<>>
    /\ CurrentPlacement.kind = "Placement"
    /\ EffectiveMethod(Settings) # "visible"
    /\ ~Settings.debug_overlay
    /\ samples' = IF entry_idx < Settings.calibrate
                  THEN Append(samples, Sample(CurrentText.value, CurrentEntry.bbox, CurrentPlacement))
                  ELSE samples
    /\ inserted' = Append(inserted,
                          Insertion(page_index, CurrentText.value, CurrentEntry.bbox,
                                    CurrentPlacement, Settings))
    /\ debug_payload' = IF Settings.dump_debug_json
                        THEN Append(debug_payload,
                                    DebugRecord(page_index, CurrentText.value, CurrentEntry.bbox,
                                                CurrentPlacement))
                        ELSE debug_payload
    /\ entry_idx' = entry_idx + 1
    /\ UNCHANGED <<call, pc, args, result, page_index, alignment, entries, calib_log, files, io>>

\* NameError: name 'draw_visible_text' is not defined
NameError == [kind |-> "NameError"]

\* lines 255-282 in the visible mode: the entry is placed, then line 282 looks up
\* draw_visible_text, a name debug.py does not define, and raises NameError
InsertTextVisibleRaises ==
    /\ InRun("entries")
    /\ entry_idx < Len(entries)
    /\ CurrentText.kind = "str"
    /\ CurrentText.value # <<>>
    /\ CurrentPlacement.kind = "Placement"
    /\ EffectiveMethod(Settings) = "visible"
    /\ samples' = IF entry_idx < Settings.calibrate
                  THEN Append(samples, Sample(CurrentText.value, CurrentEntry.bbox, CurrentPlacement))
                  ELSE samples
    /\ inserted' = Append(inserted,
                          Insertion(page_index, CurrentText.value, CurrentEntry.bbox,
                                    CurrentPlacement, Settings))
    /\ Raise(NameError)
    /\ UNCHANGED <<call, args, page_index, alignment, entries, entry_idx, calib_log,
                   debug_payload, files, io>>

\* lines 255-286 with debug_overlay set: the entry is placed, then the call
\* draw_debug_overlay(fitz_page, rect, debug_color) lacks four of the positional
\* parameters of debug.draw_debug_overlay (debug.py:43-52) and raises TypeError
InsertTextDebugRaises ==
    /\ InRun("entries")
    /\ entry_idx < Len(entries)
    /\ CurrentText.kind = "str"
    /\ CurrentText.value # <<>>
    /\ CurrentPlacement.kind = "Placement"
    /\ EffectiveMethod(Settings) # "visible"
    /\ Settings.debug_overlay
    /\ samples' = IF entry_idx < Settings.calibrate
                  THEN Append(samples, Sample(CurrentText.value, CurrentEntry.bbox, CurrentPlacement))
                  ELSE samples
    /\ inserted' = Append(inserted,
                          Insertion(page_index, CurrentText.value, CurrentEntry.bbox,
                                    CurrentPlacement, Settings))
    /\ Raise(TypeError)
    /\ UNCHANGED <<call, args, page_index, alignment, entries, entry_idx, calib_log,
                   debug_payload, files, io>>

\* lines 300-303: the page's calibration samples are logged, the loop moves on
EndPage ==
    /\ InRun("entries")
    /\ entry_idx = Len(entries)
    /\ calib_log' = IF samples # <<>> THEN Append(calib_log, samples) ELSE calib_log
    /\ page_index' = page_index + 1
    /\ pc' = "pages"
    /\ UNCHANGED <<call, args, result, alignment, entries, entry_idx, samples, inserted,
                   debug_payload, files, io>>

\* the for loop over the pages ends
PagesDone ==
    /\ InRun("pages")
    /\ page_index = Len(args.doc)
    /\ pc' = "save"
    /\ UNCHANGED <<call, args, result>>
    /\ UNCHANGED runVars

\* lines 98-101: doc.save(temp_path) succeeds
SaveTemp ==
    /\ InRun("save")
    /\ files' = [files EXCEPT !.tmp = "pdf"]
    /\ io' = Append(io, "write tmp")
    /\ pc' = IF Settings.pdfa THEN "pdfa" ELSE "replace"
    /\ UNCHANGED <<call, args, result, page_index, alignment, entries, entry_idx, samples,
                   calib_log, inserted, debug_payload>>

\* line 100: doc.save(temp_path) fails part-way and the error propagates
SaveTempFails ==
    /\ InRun("save")
    /\ files' = [files EXCEPT !.tmp = "partial"]
    /\ io' = Append(io, "write tmp")
    /\ Raise([kind |-> "OSError"])
    /\ UNCHANGED <<call, args, page_index, alignment, entries, entry_idx, samples,
                   calib_log, inserted, debug_payload>>

\* line 106: temp_path.replace(output_path)
ReplaceOutput ==
    /\ InRun("replace")
    /\ files' = [files EXCEPT !.out = files.tmp, !.tmp = "absent"]
    /\ io' = Append(io, "replace out")
    /\ pc' = "dump"
    /\ UNCHANGED <<call, args, result, page_index, alignment, entries, entry_idx, samples,
                   calib_log, inserted, debug_payload>>

\* lines 338-343: pikepdf cannot be imported
PdfaImportMissing ==
    /\ InRun("pdfa")
    /\ files' = [files EXCEPT !.out = files.tmp, !.tmp = "absent"]
    /\ io' = Append(io, "replace out")
    /\ pc' = "dump"
    /\ UNCHANGED <<call, args, result, page_index, alignment, entries, entry_idx, samples,
                   calib_log, inserted, debug_payload>>

\* line 346: pikepdf.open(temp_path) raises; finally unlinks the temporary file
PdfaOpenFails ==
    /\ InRun("pdfa")
    /\ files' = [files EXCEPT !.tmp = "absent"]
    /\ Raise([kind |-> "PdfError"])
    /\ UNCHANGED <<call, args, page_index, alignment, entries, entry_idx, samples,
                   calib_log, inserted, debug_payload, io>>

\* line 348: make_pdfa writes the converted document to output_path
PdfaConverted ==
    /\ InRun("pdfa")
    /\ files' = [files EXCEPT !.out = "pdfa", !.tmp = "absent"]
    /\ io' = Append(io, "write out")
    /\ pc' = "dump"
    /\ UNCHANGED <<call, args, result, page_index, alignment, entries, entry_idx, samples,
                   calib_log, inserted, debug_payload>>

\* lines 350-352: make_pdfa raises, pdf.save(output_path) writes the regular PDF
PdfaConversionFails ==
    /\ InRun("pdfa")
    /\ files' = [files EXCEPT !.out = "pdf", !.tmp = "absent"]
    /\ io' = Append(io, "write out")
    /\ pc' = "dump"
    /\ UNCHANGED <<call, args, result, page_index, alignment, entries, entry_idx, samples,
                   calib_log, inserted, debug_payload>>

\* line 352: make_pdfa raises and pdf.save(output_path) fails part-way too
PdfaFallbackSaveFails ==
    /\ InRun("pdfa")
    /\ files' = [files EXCEPT !.out = "partial", !.tmp = "absent"]
    /\ io' = Append(io, "write out")
    /\ Raise([kind |-> "OSError"])
    /\ UNCHANGED <<call, args, page_index, alignment, entries, entry_idx, samples,
                   calib_log, inserted, debug_payload>>

\* lines 109-112: the diagnostic dump is written
DumpDebugJson ==
    /\ InRun("dump")
    /\ Settings.dump_debug_json
    /\ files' = [files EXCEPT !.dump = "json"]
    /\ io' = Append(io, "write dump")
    /\ pc' = "done"
    /\ UNCHANGED <<call, args, result, page_index, alignment, entries, entry_idx, samples,
                   calib_log, inserted, debug_payload>>

\* line 109: no dump requested
FinishWithoutDump ==
    /\ InRun("dump")
    /\ ~Settings.dump_debug_json
    /\ pc' = "done"
    /\ UNCHANGED <<call, args, result>>
    /\ UNCHANGED runVars

OverlayNext ==
    \/ OpenDocument
    \/ SkipPage
    \/ AlignPage
    \/ AlignPageRaises
    \/ SkipBlankEntry
    \/ SkipUnmappableEntry
    \/ InsertText
    \/ InsertTextVisibleRaises
    \/ InsertTextDebugRaises
    \/ EndPage
    \/ PagesDone
    \/ SaveTemp
    \/ SaveTempFails
    \/ ReplaceOutput
    \/ PdfaImportMissing
    \/ PdfaOpenFails
    \/ PdfaConverted
    \/ PdfaConversionFails
    \/ PdfaFallbackSaveFails
    \/ DumpDebugJson
    \/ FinishWithoutDump

(***************************************************************************)
(* The overlay run exercised on bounded documents, OCR pages and settings. *)
(***************************************************************************)
MaxDocPages == 2
MaxLines == 3

\* "foo-", "bar", " " and the "Test" of the end-to-end test
TextFooHyphen == <<102, 111, 111, HYPHEN>>
TextBar == <<98, 97, 114>>
TextBlank == <<SPACE>>
TextTest == <<84, 101, 115, 116>>
LineTexts == {TextFooHyphen, TextBar, TextBlank}

\* the i-th line of a page has its own box, 20 px below the previous one
LineBox(i) == <<R(10), R(20 * i), R(60), R(12)>>

EntryLists ==
    {[i \in 1..Len(texts) |-> Entry(texts[i], LineBox(i))] : texts \in SeqsUpTo(LineTexts, MaxLines)}

TestWords == <<Entry(TextTest, <<R(10), R(10), R(40), R(20)>>)>>

\* a document of n pages; the second page shows one embedded image
DocOf(n) ==
    [i \in 1..n |->
        [rect |-> PageRect, rotation |-> 0,
         images |-> IF i = 2
                    THEN <<[xref |-> 5, rects |-> <<Rect(R(0), R(0), R(200), R(300))>>,
                            info |-> ImageInfo(TRUE, R(2000), TRUE, R(3000))]>>
                    ELSE <<>>]]
Docs == {DocOf(n) : n \in 1..MaxDocPages}

\* the OCR page lists: an optional entry for page 0, for page 1 and for an index
\* past the end of every document
OcrListsOver(firstPages) ==
    {p0 \o p1 \o p2 :
        p0 \in {<<>>} \cup {<<p>> : p \in firstPages},
        p1 \in {<<>>} \cup {<<OCRPage(1, R(w), R(100), None, TestWords, TestWords)>> : w \in {0, 100}},
        p2 \in {<<>>, <<OCRPage(MaxDocPages, R(100), R(100), None, TestWords, TestWords)>>}}

VariedFirstPages == {OCRPage(0, R(100), R(100), None, es, es) : es \in EntryLists}
PlainFirstPages == {OCRPage(0, R(w), R(100), None, TestWords, TestWords) : w \in {0, 100}}

\* settings that decide how the entries of a page are listed and normalized
EntrySettings ==
    {[DefaultSettings EXCEPT !.align = ALIGN_PAGE, !.granularity = g, !.dehyphen = d,
                             !.keep_spaces = ks, !.cjk_join = ks, !.calibrate = 1] :
        g \in {"word", "line"}, d \in BOOLEAN, ks \in BOOLEAN}

\* settings that decide the alignment: valid modes, a manual rect of zero width,
\* and the malformed strings
MalformedAligns ==
    {Align("image-rect:", <<Num(10), Num(20), Num(500)>>),
     Align("image-rect:", <<Num(10), NotANumber, Num(500), Num(700)>>),
     Align("image:", <<NotANumber>>)}

AlignmentSettings ==
    {[DefaultSettings EXCEPT !.align = a] :
        a \in {ALIGN_AUTO, ALIGN_PAGE,
               Align("image-rect:", <<Num(10), Num(20), Num(500), Num(700)>>),
               Align("image-rect:", <<Num(10), Num(20), Num(10), Num(700)>>),
               Align("image:", <<Num(5)>>)} \cup MalformedAligns}

\* settings under which no bbox maps: a manual rect of zero width, a zero scale
\* correction, a rotation override that is no multiple of 90
UnmappableSettings ==
    {[DefaultSettings EXCEPT !.granularity = "line",
                             !.align = Align("image-rect:", <<Num(10), Num(20), Num(10), Num(700)>>)],
     [DefaultSettings EXCEPT !.granularity = "line", !.align = ALIGN_PAGE,
                             !.scale_corr = <<R(1), R(0)>>],
     [DefaultSettings EXCEPT !.granularity = "line", !.align = ALIGN_PAGE,
                             !.rotate_override = Some(45)]}

\* settings that decide how the result is rendered and written
OutputSettings ==
    {[DefaultSettings EXCEPT !.align = ALIGN_PAGE, !.method = m, !.visible_qa = v,
                             !.debug_overlay = dbg, !.pdfa = p, !.dump_debug_json = dj] :
        m \in {"invisible", "opacity", "visible"}, v \in BOOLEAN, dbg \in BOOLEAN,
        p \in BOOLEAN, dj \in BOOLEAN}

OverlayInit ==
    /\ RunIdle
    /\ call = "apply_text_overlay"
    /\ pc = "start"
    /\ result = NoResult
    /\ \/ args \in [doc : Docs, pages : OcrListsOver(VariedFirstPages),
                    settings : EntrySettings \cup UnmappableSettings]
       \/ args \in [doc : Docs, pages : OcrListsOver(PlainFirstPages),
                    settings : AlignmentSettings \cup OutputSettings]

SpecOverlay == OverlayInit /\ [][OverlayNext]_vars

(***************************************************************************)
(* Properties of the overlay run (checked under SpecOverlay).              *)
(***************************************************************************)
\* the (text, pixel bbox) pairs inserted on page n, in insertion order
InsertedPairs(n) ==
    LET onPage == SelectSeq(inserted, LAMBDA r : r.page = n)
    IN  [i \in 1..Len(onPage) |-> Entry(onPage[i].text, onPage[i].bbox_px)]

\* Dehyphenation carried out on (text, bbox) pairs: a line keeps its own bbox, a merged
\* pair keeps the bbox of its first line, blank lines produce nothing to insert.
RECURSIVE GroupLines(_, _, _)
GroupLines(lines, buffer, out) ==
    IF lines = <<>> THEN out \o buffer
    ELSE LET segment == strip(Head(lines).text)
         IN  IF segment = <<>>
             THEN GroupLines(Tail(lines), <<>>, out \o buffer)
             ELSE IF buffer # <<>> /\ ContinuesWord(buffer[1].text, segment)
             THEN GroupLines(Tail(lines),
                             <<Entry(SubSeq(buffer[1].text, 1, Len(buffer[1].text) - 1) \o segment,
                                     buffer[1].bbox)>>,
                             out)
             ELSE GroupLines(Tail(lines), <<Entry(segment, Head(lines).bbox)>>, out \o buffer)

PageFinished == InRun("entries") /\ entry_idx = Len(entries)

\* C6: in line granularity with dehyphenation, each line that was not merged is inserted
\* with the bounding box of that same OCR line, and each merged pair is inserted once
\* with the bounding box of its first line.
C6_LinesKeepTheirBoxes ==
    (PageFinished /\ Settings.granularity = "line" /\ Settings.dehyphen) =>
        LET lines == OcrPage.value.lines
            normalized == [i \in 1..Len(lines) |->
                              Entry(normalize_token(lines[i].text, Settings.keep_spaces,
                                                    Settings.cjk_join).value,
                                    lines[i].bbox)]
        IN  InsertedPairs(page_index) = GroupLines(normalized, <<>>, <<>>)

\* C10: with a malformed alignment string (image-rect: without exactly four numbers,
\* image: with a non-numeric reference) the run ends with a configuration error before
\* any text is inserted and without writing an output file, whatever the document and
\* the OCR pages are.
C10_MalformedAlignAborts ==
    (call = "apply_text_overlay" /\ Settings.align \in MalformedAligns) =>
        /\ inserted = <<>>
        /\ files.out = "previous"
        /\ pc # "done"

(***************************************************************************)
(* The effective rotation (checked under SpecAlign).                       *)
(***************************************************************************)
\* C11: the rotation of a resolved alignment is the rotation override when one is set
\* (0 included), otherwise the OCR page's own rotation when it carries one, and the
\* page-reported rotation only when the OCR page's rotation is absent.
C11_RotationPrecedence ==
    AlignReturned =>
        result.rotation =
            IF args.settings.rotate_override.some THEN args.settings.rotate_override.value
            ELSE IF args.ocr_page.rotation.some THEN args.ocr_page.rotation.value
            ELSE args.page.rotation

(***************************************************************************)
(* text_utils.py exercised on bounded texts and line lists.                *)
(***************************************************************************)
MaxTextLen == 3
MaxDehyphenLines == 3

\* the characters the texts are built from: " ", "\n", U+3000, U+200B, U+200C,
\* "A", "a", the ideograph U+4E00 and the Hangul syllable U+AC00
TextChars == {SPACE, 10, 12288, ZWSP, ZWNJ, 65, 97, 19968, 44032}

\* " A<U+200B>B \n C " of test_normalize_text_collapses_spaces, and its expected result
TextSpacedExample == <<SPACE, 65, ZWSP, 66, SPACE, 10, SPACE, 67, SPACE>>
TextABC == <<65, SPACE, 66, SPACE, 67>>

\* the Hangul examples "ga na" (U+AC00 U+0020 U+B098) and "ga a", and two ideographs
TextHangulPair == <<44032, SPACE, 45208>>
TextHangulLatin == <<44032, SPACE, 97>>
TextIdeographPair == <<19968, SPACE, 20108>>

Texts ==
    SeqsUpTo(TextChars, MaxTextLen)
        \cup {TextSpacedExample, TextHangulPair, TextHangulLatin, TextIdeographPair}

\* "baz", "Bar" and " a-" next to the "foo-", "bar" and " " of the overlay harness
TextBaz == <<98, 97, 122>>
TextBarUpper == <<66, 97, 114>>
TextPaddedHyphen == <<SPACE, 97, HYPHEN>>
DehyphenTexts == {TextFooHyphen, TextBar, TextBaz, TextBarUpper, TextBlank, TextPaddedHyphen}

TextInit ==
    /\ RunIdle
    /\ pc = "called"
    /\ result = NoResult
    /\ \/ /\ call = "normalize_token"
          /\ args \in [text : Texts, keep_spaces : BOOLEAN, cjk_join : BOOLEAN]
       \/ /\ call = "dehyphenize"
          /\ args \in [lines : SeqsUpTo(DehyphenTexts, MaxDehyphenLines)]

CallNormalizeToken ==
    /\ call = "normalize_token"
    /\ pc = "called"
    /\ result' = normalize_token(args.text, args.keep_spaces, args.cjk_join)
    /\ pc' = IF result'.kind = "TypeError" THEN "raised" ELSE "returned"
    /\ UNCHANGED <<call, args>>
    /\ UNCHANGED runVars

CallDehyphenize ==
    /\ call = "dehyphenize"
    /\ pc = "called"
    /\ result' = [kind |-> "list", value |-> dehyphenize(args.lines)]
    /\ pc' = "returned"
    /\ UNCHANGED <<call, args>>
    /\ UNCHANGED runVars

TextNext == CallNormalizeToken \/ CallDehyphenize

SpecText == TextInit /\ [][TextNext]_vars

(***************************************************************************)
(* Properties of the text normalizer (checked under SpecText).             *)
(***************************************************************************)
NormFinished == call = "normalize_token" /\ pc # "called"
NormReturned == call = "normalize_token" /\ pc = "returned"

NoOuterBlank(t) == t # <<>> => ~isspace(t[1]) /\ ~isspace(t[Len(t)])
NoBlankRun(t) == \A i \in 1..(Len(t) - 1) : ~(isspace(t[i]) /\ isspace(t[i + 1]))

\* C12: with keep_spaces=False normalize_token returns a string with no leading or
\* trailing whitespace and no run of two or more whitespace characters, whatever
\* cjk_join is; a zero-width space counts as a space (" A<ZWSP>B \n C " gives "A B C").
C12_CollapsedSpacing ==
    (NormFinished /\ ~args.keep_spaces) =>
        /\ pc = "returned"
        /\ NoOuterBlank(result.value)
        /\ NoBlankRun(result.value)
        /\ args.text = TextSpacedExample => result.value = TextABC

C12_Witness ==
    /\ NormReturned /\ ~args.keep_spaces /\ args.cjk_join
    /\ args.text = TextSpacedExample
    /\ result.value = TextABC

NonBlank(t) == SelectSeq(t, LAMBDA c : ~isspace(c))
IsHangul(code) == 44032 <= code /\ code <= 55203
BlankBetween(t, i, Wide(_)) ==
    /\ 1 < i /\ i < Len(t)
    /\ isspace(t[i])
    /\ Wide(t[i - 1]) /\ Wide(t[i + 1])

\* C13: with cjk_join=True a whitespace character between two CJK characters is
\* removed, the Hangul pair "U+AC00 U+0020 U+B098" included (it returns the two
\* syllables joined); a whitespace between a CJK and a non-CJK character is kept.
C13_HangulPairJoined ==
    (NormReturned /\ args.cjk_join /\ ~args.keep_spaces) =>
        /\ \A i \in 1..Len(result.value) :
              ~BlankBetween(result.value, i, LAMBDA c : is_cjk(c) \/ IsHangul(c))
        /\ args.text = TextHangulPair => result.value = <<44032, 45208>>
        /\ args.text = TextHangulLatin => result.value = TextHangulLatin

\* C13, amended: with cjk_join=True and keep_spaces=False, exactly the whitespace
\* characters standing between two CJK ideographs (the ranges of is_cjk) are removed
\* and nothing else changes; Hangul syllables are outside those ranges, so the Hangul
\* pair is returned with its space, like a CJK character next to a Latin letter.
C13_IdeographPairJoined ==
    (NormFinished /\ args.cjk_join /\ ~args.keep_spaces) =>
        LET collapsed == normalize_token(args.text, FALSE, FALSE).value
            dropped == {i \in 1..Len(collapsed) : BlankBetween(collapsed, i, is_cjk)}
        IN  /\ pc = "returned"
            /\ \A i \in 1..Len(result.value) : ~BlankBetween(result.value, i, is_cjk)
            /\ NonBlank(result.value) = NonBlank(collapsed)
            /\ Len(result.value) = Len(collapsed) - Cardinality(dropped)
            /\ args.text = TextIdeographPair => result.value = <<19968, 20108>>
            /\ args.text = TextHangulPair => result.value = TextHangulPair
            /\ args.text = TextHangulLatin => result.value = TextHangulLatin

C13_Witness ==
    /\ NormReturned /\ args.cjk_join /\ ~args.keep_spaces
    /\ args.text = <<19968, 12288, 19968>>
    /\ result.value = <<19968, 19968>>

\* C14: normalize_token returns a string for every text and every combination of
\* keep_spaces and cjk_join and never raises; with keep_spaces=True and cjk_join=True
\* a whitespace character at the start or the end of the text is preserved, and empty
\* input gives empty output.
C14_NormalizeTotal ==
    NormFinished =>
        /\ pc = "returned"
        /\ args.text = <<>> => result.value = <<>>
        /\ (args.keep_spaces /\ args.cjk_join /\ args.text # <<>>) =>
              /\ isspace(args.text[1]) => isspace(result.value[1])
              /\ isspace(args.text[Len(args.text)]) => isspace(result.value[Len(result.value)])

(***************************************************************************)
(* Properties of dehyphenize (checked under SpecText).                     *)
(***************************************************************************)
DehyphenReturned == call = "dehyphenize" /\ pc = "returned"

EndsWithHyphen(t) == t # <<>> /\ t[Len(t)] = HYPHEN
StartsLower(t) == t # <<>> /\ t[1] \in 97..122
ButLast(t) == SubSeq(t, 1, Len(t) - 1)

RECURSIVE Concat(_)
Concat(ts) == IF ts = <<>> THEN <<>> ELSE Head(ts) \o Concat(Tail(ts))

\* the hyphens that take part in a merge: the last character of a line that is
\* followed, with no blank line between, by a line starting in lower case
MergePoints(ls) ==
    {i \in 1..(Len(ls) - 1) : EndsWithHyphen(strip(ls[i])) /\ StartsLower(strip(ls[i + 1]))}

\* C15: dehyphenize merges a non-blank line into the accumulated text, dropping the
\* trailing hyphen and adding no separator, exactly when the accumulated text ends
\* with a hyphen and the line starts with a lowercase letter; otherwise the line is a
\* new entry after it: ["foo-","bar","baz"] gives ["foobar","baz"], ["foo-","Bar"]
\* gives ["foo-","Bar"].
C15_MergeRule ==
    DehyphenReturned =>
        LET ls == args.lines
            out == result.value
            stripped == [i \in 1..Len(ls) |-> strip(ls[i])]
        IN  /\ ls = <<TextFooHyphen, TextBar, TextBaz>> => out = <<ButLast(TextFooHyphen) \o TextBar, TextBaz>>
            /\ ls = <<TextFooHyphen, TextBarUpper>> => out = <<TextFooHyphen, TextBarUpper>>
            /\ Len(ls) = 2 /\ stripped[1] # <<>> /\ stripped[2] # <<>> =>
                  out = IF EndsWithHyphen(stripped[1]) /\ StartsLower(stripped[2])
                        THEN <<ButLast(stripped[1]) \o stripped[2]>>
                        ELSE <<stripped[1], stripped[2]>>
            /\ Len(out) = Len(ls) - Cardinality(MergePoints(ls))
            /\ Len(Concat(out)) = Len(Concat(stripped)) - Cardinality(MergePoints(ls))

C15_Witness ==
    /\ DehyphenReturned
    /\ args.lines = <<TextFooHyphen, TextBar, TextBaz>>
    /\ result.value = <<<<102, 111, 111, 98, 97, 114>>, TextBaz>>

(***************************************************************************)
(* Properties of the page and entry loops (checked under SpecOverlay).     *)
(***************************************************************************)
LastInserted == inserted[Len(inserted)]

\* C16: pages are handled in increasing index order, each at most once; a page with
\* an OCR entry is aligned before any of its insertions and all its insertions happen
\* before the next page is aligned; a page without an OCR entry receives no insertion
\* and does not stop the processing of the later pages.
C16_PagesInOrder ==
    [][/\ page_index' \in {page_index, page_index + 1}
       /\ inserted' # inserted =>
             /\ pc = "entries" /\ alignment.kind = "AlignmentInfo"
             /\ inserted' = Append(inserted, LastInserted')
             /\ LastInserted'.page = page_index
             /\ OcrPage.some
       /\ (pc = "pages" /\ pc' = "entries") =>
             /\ alignment'.kind = "AlignmentInfo"
             /\ \A i \in 1..Len(inserted) : inserted[i].page < page_index
       /\ (pc = "pages" /\ page_index < Len(args.doc) /\ ~OcrPage.some) =>
             /\ pc' = "pages" /\ page_index' = page_index + 1
             /\ inserted' = inserted]_vars

C16_Witness ==
    /\ InRun("done")
    /\ Len(args.doc) = 2
    /\ ~PageMapGet(args.pages, 0).some
    /\ inserted # <<>>
    /\ \A i \in 1..Len(inserted) : inserted[i].page = 1

\* whether the entry the loop is at gets placed: its normalized text is non-empty
\* and its bbox maps without ValueError
EntryPlaced ==
    IF CurrentText.kind # "str" THEN FALSE
    ELSE CurrentText.value # <<>> /\ CurrentPlacement.kind = "Placement"

\* C17: an entry produces exactly one insertion, carrying its normalized text, iff
\* its normalized text is non-empty and its bbox maps; a skipped entry causes no
\* insertion and the loop goes on with the next entry of the page.
C17_OneInsertionPerPlacedEntry ==
    [][(pc = "entries" /\ entry_idx < Len(entries)) =>
          IF EntryPlaced
          THEN /\ inserted' = Append(inserted, LastInserted')
               /\ LastInserted'.text = CurrentText.value
               /\ LastInserted'.bbox_px = CurrentEntry.bbox
               /\ LastInserted'.page = page_index
          ELSE /\ inserted' = inserted
               /\ CurrentText.kind = "str" =>
                     /\ pc' = "entries" /\ entries' = entries
                     /\ entry_idx' = entry_idx + 1]_vars

C17_Witness ==
    /\ InRun("entries")
    /\ Settings.granularity = "line" /\ ~Settings.dehyphen
    /\ entry_idx = 2
    /\ entries[1].text = TextBlank /\ entries[2].text = TextBar
    /\ Len(inserted) = 1
    /\ inserted[1].text = TextBar /\ inserted[1].bbox_px = entries[2].bbox

\* C18: the rendering of every insertion follows from the settings alone: visible_qa
\* gives the visible mode (gray fill and a rectangle per entry) whatever method is;
\* otherwise method invisible gives render mode 3 with no colour and no opacity (never
\* painted) and method opacity gives a painted fill at 2% opacity.
C18_RenderModeFromSettings ==
    \A i \in 1..Len(inserted) :
        LET x == inserted[i]
        IN  IF Settings.visible_qa
            THEN /\ x.render_mode = 0 /\ x.color = "gray" /\ x.opacity = Some(R(1))
                 /\ x.visible_rect
            ELSE /\ Settings.method = "invisible" =>
                       /\ x.render_mode = 3 /\ x.color = "none" /\ x.opacity = None
                       /\ ~x.visible_rect
                 /\ Settings.method = "opacity" =>
                       /\ x.render_mode = 0 /\ x.color = "black"
                       /\ x.opacity = Some(Rat(2, 100))
                       /\ ~x.visible_rect

(***************************************************************************)
(* Properties of the output stage (checked under SpecOverlay).             *)
(***************************************************************************)
\* C19: with a PDF/A export requested the run never fails because of the conversion:
\* if the library is missing, or opening the saved document or the conversion fails,
\* the destination holds the unconverted document and the run completes.
C19_PdfaNeverFatal ==
    (call = "apply_text_overlay" /\ Settings.pdfa) =>
        /\ pc = "raised" => result.kind # "PdfError"
        /\ pc \in {"dump", "done"} => files.out \in {"pdf", "pdfa"}

\* C20: the destination is only ever changed by replacing it with the completely
\* written temporary file; no step writes into the destination directly.
C20_DestinationOnlyReplaced ==
    [][files'.out # files.out =>
          /\ io' = Append(io, "replace out")
          /\ files.tmp = "pdf"
          /\ files'.out = "pdf"]_vars

(***************************************************************************)
(* Properties of the calibration log (checked under SpecOverlay).          *)
(***************************************************************************)
\* the placements made on page n, in order, in the shape of calibration samples
PlacementsOn(n) ==
    LET onPage == SelectSeq(inserted, LAMBDA r : r.page = n)
    IN  [i \in 1..Len(onPage) |->
            [text |-> onPage[i].text, bbox_px |-> onPage[i].bbox_px,
             anchor_pt |-> onPage[i].anchor, font_size |-> onPage[i].font_size]]

\* C22: with calibration count N the samples of a page are its first N placements, in
\* order (all of them when fewer than N entries are placed), whatever entries before
\* them were skipped.
C22_CalibrationFirstPlacements ==
    PageFinished =>
        LET placed == PlacementsOn(page_index)
            n == IF Settings.calibrate < Len(placed) THEN Settings.calibrate ELSE Len(placed)
        IN  samples = SubSeq(placed, 1, n)

(***************************************************************************)
(* ocr_io.py: the OCR JSON snapshot.  A JSON object is a record whose      *)
(* fields are None when the key is missing.                                *)
(***************************************************************************)
RMin(a, b) == IF RLt(b, a) THEN b ELSE a
RAbs(a) == <<Abs(a[1]), a[2]>>

\* @dataclass OCRLine (an OCRWord is an Entry: text and bbox)
OCRLine(text, bbox, words) == [text |-> text, bbox |-> bbox, words |-> words]

\* a missing key, by the type of the value the key would hold
NoNumber == [some |-> FALSE, value |-> R(0)]
NoList == [some |-> FALSE, value |-> <<>>]

JWord(text, bbox) == [text |-> text, bbox |-> bbox]
JLine(text, bbox, words) == [text |-> text, bbox |-> bbox, words |-> words]
JEntry(page, width_px, width, height_px, height, rotation, words, lines) ==
    [page |-> page, width_px |-> width_px, width |-> width, height_px |-> height_px,
     height |-> height, rotation |-> rotation, words |-> words, lines |-> lines]
JsonFile(exists, is_list, payload) == [exists |-> exists, is_list |-> is_list, entries |-> payload]

FileNotFoundError == [kind |-> "FileNotFoundError"]

\* the objects that have both a "text" and a "bbox" key
WellKeyed(raw) == SelectSeq(raw, LAMBDA o : o.text.some /\ o.bbox.some)

\* _decode_bbox(value) raises unless the list has 4 entries
BadBbox(o) == Len(o.bbox.value) # 4

\* [OCRWord(text=str(word["text"]), bbox=_decode_bbox(word["bbox"])) for word in ... if ...]
LoadWords(raw) ==
    LET kept == WellKeyed(raw)
    IN  IF \E i \in 1..Len(kept) : BadBbox(kept[i]) THEN ValueError
        ELSE [kind |-> "list",
              value |-> [i \in 1..Len(kept) |-> Entry(kept[i].text.value, kept[i].bbox.value)]]

\* lines 103-118: the lines of an entry
LoadLines(raw) ==
    LET kept == WellKeyed(raw)
    IN  IF \E i \in 1..Len(kept) : BadBbox(kept[i]) \/ LoadWords(kept[i].words).kind = "ValueError"
        THEN ValueError
        ELSE [kind |-> "list",
              value |-> [i \in 1..Len(kept) |->
                            OCRLine(kept[i].text.value, kept[i].bbox.value,
                                    LoadWords(kept[i].words).value)]]

\* float(a or b): a unless it is missing or zero, else b; float(None) is a TypeError
FloatOr(a, b) ==
    LET picked == IF a.some /\ ~RIsZero(a.value) THEN a ELSE b
    IN  IF picked.some THEN [kind |-> "float", value |-> picked.value] ELSE TypeError

\* sorted(words, key=lambda w: (w.bbox[1], w.bbox[0])): a stable sort on (y, x)
KeyLess(a, b) ==
    \/ RLt(a.bbox[2], b.bbox[2])
    \/ a.bbox[2] = b.bbox[2] /\ RLt(a.bbox[1], b.bbox[1])

InsertSorted(acc, w) ==
    LET n == Cardinality({i \in 1..Len(acc) : ~KeyLess(w, acc[i])})
    IN  SubSeq(acc, 1, n) \o <<w>> \o SubSeq(acc, n + 1, Len(acc))

RECURSIVE SortedFrom(_, _)
SortedFrom(ws, acc) ==
    IF ws = <<>> THEN acc ELSE SortedFrom(Tail(ws), InsertSorted(acc, Head(ws)))

sorted_words(words) == SortedFrom(words, <<>>)

\* tolerance: float = 4.0
Tolerance == R(4)

\* abs(y - current_y) > tolerance against the top of the last word of the line
JoinsLineOfLastWord(current, word) ==
    RLe(RAbs(RSub(word.bbox[2], current.words[Len(current.words)].bbox[2])), Tolerance)

\* current_y = current.bbox[1]; the word joins unless abs(y - current_y) > tolerance
JoinsLine(current, word) ==
    RLe(RAbs(RSub(word.bbox[2], current.bbox[2])), Tolerance)

\* lines 179-185: the word joins the current line
ExtendLine(current, word) ==
    LET x0 == RMin(current.bbox[1], word.bbox[1])
        y0 == RMin(current.bbox[2], word.bbox[2])
        x1 == RMax(RAdd(current.bbox[1], current.bbox[3]), RAdd(word.bbox[1], word.bbox[3]))
        y1 == RMax(RAdd(current.bbox[2], current.bbox[4]), RAdd(word.bbox[2], word.bbox[4]))
    IN  OCRLine(current.text \o <<SPACE>> \o word.text,
                <<x0, y0, RSub(x1, x0), RSub(y1, y0)>>,
                Append(current.words, word))

\* the loop of _lines_from_words; current is <<>> for None
RECURSIVE GroupFrom(_, _, _)
GroupFrom(ws, current, lines) ==
    IF ws = <<>> THEN lines \o current
    ELSE LET word == Head(ws)
         IN  IF current = <<>>
             THEN GroupFrom(Tail(ws), <<OCRLine(word.text, word.bbox, <<word>>)>>, lines)
             ELSE IF JoinsLine(current[1], word)
             THEN GroupFrom(Tail(ws), <<ExtendLine(current[1], word)>>, lines)
             ELSE GroupFrom(Tail(ws), <<OCRLine(word.text, word.bbox, <<word>>)>>,
                            lines \o current)

\* _lines_from_words(words)
_lines_from_words(words) == GroupFrom(sorted_words(words), <<>>, <<>>)

\* lines 92-131: one entry of the payload; position is len(pages) when it is read
LoadEntry(entry, position) ==
    LET width_px == FloatOr(entry.width_px, entry.width)
        height_px == FloatOr(entry.height_px, entry.height)
        words == LoadWords(entry.words)
        lines == LoadLines(entry.lines)
    IN  IF width_px.kind = "TypeError" \/ height_px.kind = "TypeError" THEN TypeError
        ELSE IF words.kind = "ValueError" \/ lines.kind = "ValueError" THEN ValueError
        ELSE [kind |-> "page",
              value |-> OCRPage(IF entry.page.some THEN entry.page.value ELSE position,
                                width_px.value, height_px.value, entry.rotation,
                                words.value,
                                IF lines.value = <<>> /\ words.value # <<>>
                                THEN _lines_from_words(words.value)
                                ELSE lines.value)]

RECURSIVE LoadFrom(_, _)
LoadFrom(payload, pages) ==
    IF payload = <<>> THEN [kind |-> "pages", value |-> pages]
    ELSE LET loaded == LoadEntry(Head(payload), Len(pages))
         IN  IF loaded.kind # "page" THEN loaded
             ELSE LoadFrom(Tail(payload), Append(pages, loaded.value))

\* load_ocr_json(path)
load_ocr_json(file) ==
    IF ~file.exists THEN FileNotFoundError
    ELSE IF ~file.is_list THEN ValueError
    ELSE LoadFrom(file.entries, <<>>)

\* save_ocr_json(pages, path): the file it writes
SaveWords(words) == [i \in 1..Len(words) |-> JWord(Some(words[i].text), Some(words[i].bbox))]
save_ocr_json(pages) ==
    JsonFile(TRUE, TRUE,
             [i \in 1..Len(pages) |->
                 JEntry(Some(pages[i].index), Some(pages[i].width_px), NoNumber,
                        Some(pages[i].height_px), NoNumber, pages[i].rotation,
                        SaveWords(pages[i].words),
                        [j \in 1..Len(pages[i].lines) |->
                            JLine(Some(pages[i].lines[j].text), Some(pages[i].lines[j].bbox),
                                  SaveWords(pages[i].lines[j].words))])])

(***************************************************************************)
(* Calls of load_ocr_json, and of save_ocr_json followed by load_ocr_json, *)
(* on bounded inputs.                                                      *)
(***************************************************************************)
MaxWords == 3
MaxOcrPages == 2

OcrXs == {10, 50}
OcrYs == {10, 12, 14, 15, 40}

\* a word box 20 wide and 10 high; the text names the column (l, r) and the top
WordAt(x, y) ==
    Entry(<<IF x = 10 THEN 108 ELSE 114, 48 + (IF y = 40 THEN 9 ELSE y - 10)>>,
          <<R(x), R(y), R(20), R(10)>>)

WordChoices == {WordAt(x, y) : x \in OcrXs, y \in OcrYs}

JWordOf(w) == JWord(Some(w.text), Some(w.bbox))
JWordsOf(ws) == [i \in 1..Len(ws) |-> JWordOf(ws[i])]

WordsOnlyEntry(ws) ==
    JEntry(Some(0), Some(R(1000)), NoNumber, Some(R(1500)), NoNumber, None, JWordsOf(ws), <<>>)

GivenLine == JLine(Some(TextBar), Some(<<R(10), R(10), R(60), R(12)>>),
                   <<JWordOf(WordAt(50, 12)), JWordOf(WordAt(10, 10))>>)

OtherEntries ==
    { \* lines are given, with and without words beside them
      JEntry(Some(0), Some(R(1000)), NoNumber, Some(R(1500)), NoNumber, Some(90),
             <<JWordOf(WordAt(10, 10)), JWordOf(WordAt(50, 40))>>, <<GivenLine>>),
      JEntry(Some(3), Some(R(1000)), NoNumber, Some(R(1500)), NoNumber, None, <<>>,
             <<GivenLine, JLine(Some(TextTest), Some(<<R(10), R(40), R(60), R(10)>>), <<>>)>>),
      \* the legacy keys "width" and "height", and no "page" key
      JEntry(None, NoNumber, Some(R(1000)), NoNumber, Some(R(1500)), None,
             <<JWordOf(WordAt(10, 10))>>, <<>>),
      \* a word without its "text" key, a line without its "bbox" key
      JEntry(Some(0), Some(R(1000)), NoNumber, Some(R(1500)), NoNumber, None,
             <<JWord(NoList, Some(<<R(10), R(10), R(20), R(10)>>)), JWordOf(WordAt(50, 10))>>,
             <<JLine(Some(TextBar), NoList, <<>>)>>),
      \* a bbox of three numbers
      JEntry(Some(0), Some(R(1000)), NoNumber, Some(R(1500)), NoNumber, None,
             <<JWord(Some(TextBar), Some(<<R(10), R(10), R(20)>>))>>, <<>>),
      \* a zero width and no "width" key
      JEntry(Some(0), Some(R(0)), NoNumber, Some(R(1500)), NoNumber, None, <<>>, <<>>),
      \* neither "height_px" nor "height"
      JEntry(Some(0), Some(R(1000)), NoNumber, NoNumber, NoNumber, None, <<>>, <<>>) }

JsonFiles ==
    {JsonFile(TRUE, TRUE, <<WordsOnlyEntry(ws)>>) : ws \in SeqsUpTo(WordChoices, MaxWords)}
    \cup {JsonFile(TRUE, TRUE, payload) : payload \in SeqsUpTo(OtherEntries, MaxOcrPages)}
    \cup {JsonFile(FALSE, TRUE, <<>>), JsonFile(TRUE, FALSE, <<>>)}

LineOf(ws) == _lines_from_words(ws)

SavedPages ==
    LET two == <<WordAt(10, 10), WordAt(50, 10)>>
    IN  { OCRPage(0, R(1000), R(1500), Some(0), two, LineOf(two)),
          OCRPage(1, R(1000), R(1500), None, two,
                  <<OCRLine(TextBar, <<R(10), R(10), R(60), R(10)>>, <<>>)>>),
          OCRPage(0, R(1000), R(1500), Some(90), <<>>, <<>>),
          OCRPage(1, R(1000), R(1500), None, two, <<>>),
          OCRPage(0, R(0), R(1500), None, two, LineOf(two)),
          OCRPage(1, R(1000), R(0), None, <<>>, <<>>) }

OcrInit ==
    /\ RunIdle
    /\ pc = "called"
    /\ result = NoResult
    /\ \/ /\ call = "load_ocr_json"
          /\ args \in [file : JsonFiles]
       \/ /\ call = "save_ocr_json"
          /\ args \in [pages : SeqsUpTo(SavedPages, MaxOcrPages)]

LoadOutcome(file) ==
    LET loaded == load_ocr_json(file)
    IN  IF loaded.kind = "pages" THEN "returned" ELSE "raised"

CallLoadOcrJson ==
    /\ call = "load_ocr_json"
    /\ pc = "called"
    /\ result' = load_ocr_json(args.file)
    /\ pc' = LoadOutcome(args.file)
    /\ UNCHANGED <<call, args>>
    /\ UNCHANGED runVars

\* save_ocr_json(pages, path) writes the file
CallSaveOcrJson ==
    /\ call = "save_ocr_json"
    /\ pc = "called"
    /\ result' = [kind |-> "file", value |-> save_ocr_json(args.pages)]
    /\ pc' = "saved"
    /\ UNCHANGED <<call, args>>
    /\ UNCHANGED runVars

\* load_ocr_json(path) reads the file that was just written
LoadSavedJson ==
    /\ call = "save_ocr_json"
    /\ pc = "saved"
    /\ result' = load_ocr_json(result.value)
    /\ pc' = LoadOutcome(result.value)
    /\ UNCHANGED <<call, args>>
    /\ UNCHANGED runVars

OcrNext == CallLoadOcrJson \/ CallSaveOcrJson \/ LoadSavedJson

SpecOcr == OcrInit /\ [][OcrNext]_vars

(***************************************************************************)
(* Properties of the OCR JSON snapshot (checked under SpecOcr).            *)
(***************************************************************************)
RoundTripDone == call = "save_ocr_json" /\ pc \in {"returned", "raised"}

\* C23: saving a list of OCR pages and loading the file again succeeds and
\* returns pages equal to the saved ones in index, width_px, height_px,
\* rotation, words and lines, in the same order.
C23_RoundTrip ==
    RoundTripDone => result.kind = "pages" /\ result.value = args.pages


LoadReturned == call = "load_ocr_json" /\ pc = "returned"

\* the entries whose lines are synthesized: words, and no line with both keys
Synthesized(entry) == WellKeyed(entry.lines) = <<>> /\ WellKeyed(entry.words) # <<>>

Count(seq, x) == Cardinality({i \in 1..Len(seq) : seq[i] = x})

RECURSIVE WordsOfLines(_)
WordsOfLines(lines) ==
    IF lines = <<>> THEN <<>> ELSE Head(lines).words \o WordsOfLines(Tail(lines))

RECURSIVE SpaceJoined(_)
SpaceJoined(words) ==
    IF Len(words) = 1 THEN words[1].text
    ELSE words[1].text \o <<SPACE>> \o SpaceJoined(Tail(words))

Right(w) == RAdd(w.bbox[1], w.bbox[3])
Bottom(w) == RAdd(w.bbox[2], w.bbox[4])

IsUnionBox(bbox, words) ==
    LET ws == {words[i] : i \in 1..Len(words)}
        right == RAdd(bbox[1], bbox[3])
        bottom == RAdd(bbox[2], bbox[4])
    IN  /\ \E w \in ws : bbox[1] = w.bbox[1]
        /\ \A w \in ws : RLe(bbox[1], w.bbox[1])
        /\ \E w \in ws : bbox[2] = w.bbox[2]
        /\ \A w \in ws : RLe(bbox[2], w.bbox[2])
        /\ \E w \in ws : right = Right(w)
        /\ \A w \in ws : RLe(Right(w), right)
        /\ \E w \in ws : bottom = Bottom(w)
        /\ \A w \in ws : RLe(Bottom(w), bottom)

TopsWithin(words, d) ==
    \A i, j \in 1..Len(words) :
        RLe(RSub(words[i].bbox[2], words[j].bbox[2]), R(d))

AllKeyed(raw) == \A i \in 1..Len(raw) : raw[i].text.some /\ raw[i].bbox.some

LinesGiven(entry) ==
    /\ entry.lines # <<>>
    /\ AllKeyed(entry.lines)
    /\ \A j \in 1..Len(entry.lines) : AllKeyed(entry.lines[j].words)

SameAsGiven(lines, given) ==
    /\ Len(lines) = Len(given)
    /\ \A j \in 1..Len(given) :
          /\ lines[j].text = given[j].text.value
          /\ lines[j].bbox = given[j].bbox.value
          /\ Len(lines[j].words) = Len(given[j].words)
          /\ \A k \in 1..Len(given[j].words) :
                /\ lines[j].words[k].text = given[j].words[k].text.value
                /\ lines[j].words[k].bbox = given[j].words[k].bbox.value

\* C24: a loaded page with words and no lines gets lines that partition its
\* words (each word in exactly one line), whose words' tops are at most 4
\* apart, whose text is the words' texts joined by single spaces and whose
\* bbox is the union box of the words; given lines are loaded unchanged.
C24_SynthesizedLines ==
    LoadReturned =>
        \A i \in 1..Len(args.file.entries) :
            LET entry == args.file.entries[i]
                page == result.value[i]
                flat == WordsOfLines(page.lines)
            IN  /\ Synthesized(entry) =>
                      /\ Len(flat) = Len(page.words)
                      /\ \A k \in 1..Len(page.words) :
                            Count(flat, page.words[k]) = Count(page.words, page.words[k])
                      /\ \A j \in 1..Len(page.lines) :
                            /\ page.lines[j].words # <<>>
                            /\ TopsWithin(page.lines[j].words, 4)
                            /\ page.lines[j].text = SpaceJoined(page.lines[j].words)
                            /\ IsUnionBox(page.lines[j].bbox, page.lines[j].words)
                /\ LinesGiven(entry) => SameAsGiven(page.lines, entry.lines)

\* three words with tops 10, 14 and 15 were loaded: the first two share a line
C24_Witness ==
    /\ LoadReturned
    /\ Len(args.file.entries) = 1
    /\ Synthesized(args.file.entries[1])
    /\ result.value[1].words = <<WordAt(50, 15), WordAt(10, 14), WordAt(50, 10)>>
    /\ Len(result.value[1].lines) = 2
    /\ Len(result.value[1].lines[1].words) = 2

NonDecreasing(seq, col) ==
    \A i, j \in 1..Len(seq) : i < j => RLe(seq[i].bbox[col], seq[j].bbox[col])

\* C25: in every synthesized line the words are in left-to-right order
\* (non-decreasing x), and the lines are emitted top to bottom
\* (non-decreasing top).
C25_ReadingOrder ==
    LoadReturned =>
        \A i \in 1..Len(args.file.entries) :
            Synthesized(args.file.entries[i]) =>
                /\ NonDecreasing(result.value[i].lines, 2)
                /\ \A j \in 1..Len(result.value[i].lines) :
                      NonDecreasing(result.value[i].lines[j].words, 1)


(***************************************************************************)
(* Properties of rectangle rotation (checked under SpecGeom).              *)
(***************************************************************************)
Corners(rect) == {<<rect.x0, rect.y0>>, <<rect.x0, rect.y1>>, <<rect.x1, rect.y0>>, <<rect.x1, rect.y1>>}

RotatedCorners(rect, page_rect, rotation) ==
    {apply_rotation(c, page_rect, rotation).value : c \in Corners(rect)}

\* rect is the axis-aligned bounding box of the points
IsBoundingBox(rect, points) ==
    /\ \E p \in points : rect.x0 = p[1]
    /\ \E p \in points : rect.x1 = p[1]
    /\ \E p \in points : rect.y0 = p[2]
    /\ \E p \in points : rect.y1 = p[2]
    /\ \A p \in points :
          /\ RLe(rect.x0, p[1]) /\ RLe(p[1], rect.x1)
          /\ RLe(rect.y0, p[2]) /\ RLe(p[2], rect.y1)

Ordered(rect) == RLe(rect.x0, rect.x1) /\ RLe(rect.y0, rect.y1)

InsideOrOnBorder(point, rect) ==
    /\ RLe(rect.x0, point[1]) /\ RLe(point[1], rect.x1)
    /\ RLe(rect.y0, point[2]) /\ RLe(point[2], rect.y1)

\* C26: for a rect with x0 <= x1 and y0 <= y1 and a rotation of 0, 90, 180 or
\* 270, rotate_rect returns the bounding box of the four corners mapped by
\* apply_rotation; the anchor of a returned Placement lies inside or on the
\* border of its rect whenever baseline_ratio is in [0,1].
C26_RotatedRectBoundsCorners ==
    /\ (call = "rotate_rect" /\ pc # "called" /\ Ordered(args.rect)
            /\ args.rotation \in {0, 90, 180, 270}) =>
          /\ result.kind = "rect"
          /\ IsBoundingBox(result.value,
                           RotatedCorners(args.rect, args.page_rect, args.rotation))
    /\ (MapReturned /\ RLe(R(0), args.baseline_ratio) /\ RLe(args.baseline_ratio, R(1))) =>
          InsideOrOnBorder(result.anchor, result.rect)

\* a 40 x 10 rect on the 595 x 842 page turned by 90 degrees
C26_Witness ==
    /\ call = "rotate_rect" /\ pc = "returned"
    /\ args.rect = Rect(R(100), R(200), R(140), R(210))
    /\ args.page_rect = PageRect
    /\ args.rotation = 90
    /\ result.value = Rect(R(385), R(100), R(395), R(140))


(***************************************************************************)
(* dehyphenize keeps entries and lines in step (checked under SpecText).   *)
(***************************************************************************)
\* the position in the result of the entry that holds input line i
EntryOf(ls, i) == i - Cardinality({m \in MergePoints(ls) : m < i})

\* the text that starts at line i: the line and every line merged into it
RECURSIVE MergedFrom(_, _)
MergedFrom(ls, i) ==
    IF i \in MergePoints(ls)
    THEN ButLast(strip(ls[i])) \o MergedFrom(ls, i + 1)
    ELSE strip(ls[i])

EndsWith(t, tail) ==
    Len(tail) <= Len(t) /\ SubSeq(t, Len(t) - Len(tail) + 1, Len(t)) = tail

\* C27: dehyphenize returns one entry per input line less one per merge:
\* each blank line gives one blank placeholder at its position, each
\* non-blank line that is not merged into its predecessor gives one entry,
\* in input order, and lines on the two sides of a blank line are never
\* merged.
C27_EntriesFollowLines ==
    DehyphenReturned =>
        LET ls == args.lines
            out == result.value
            blank(i) == strip(ls[i]) = <<>>
        IN  /\ Len(out) = Len(ls) - Cardinality(MergePoints(ls))
            /\ Cardinality({k \in 1..Len(out) : out[k] = <<>>})
                   = Cardinality({i \in 1..Len(ls) : blank(i)})
            /\ \A i \in 1..Len(ls) :
                  /\ EntryOf(ls, i) \in 1..Len(out)
                  /\ blank(i) => out[EntryOf(ls, i)] = <<>>
                  /\ (~blank(i) /\ (i - 1) \notin MergePoints(ls)) =>
                        out[EntryOf(ls, i)] = MergedFrom(ls, i)
                  /\ (blank(i) /\ 1 < i /\ i < Len(ls) /\ ~blank(i - 1) /\ ~blank(i + 1)) =>
                        /\ EntryOf(ls, i + 1) = EntryOf(ls, i - 1) + 2
                        /\ EndsWith(out[EntryOf(ls, i - 1)], strip(ls[i - 1]))
                        /\ out[EntryOf(ls, i + 1)] = MergedFrom(ls, i + 1)

\* "foo-", a blank line, "bar": three entries, nothing merged
C27_Witness ==
    /\ DehyphenReturned
    /\ args.lines = <<TextFooHyphen, TextBlank, TextBar>>
    /\ result.value = <<TextFooHyphen, <<>>, TextBar>>


(***************************************************************************)
(* The pixel size of a selected image (checked under SpecAlign).           *)
(***************************************************************************)
\* C28: when an embedded image is selected, the resolved pixel size is the
\* image's own (width, height) if both are available and non-zero, and
\* otherwise the OCR page's (width_px, height_px); never the width of one
\* with the height of the other.
C28_OneSourceForBothDims ==
    (AlignReturned /\ result.xref.some) =>
        \A i \in 1..Len(args.page.images) :
            args.page.images[i].xref = result.xref.value =>
                LET info == args.page.images[i].info
                    intrinsic == /\ info.has_width /\ ~RIsZero(info.width)
                                 /\ info.has_height /\ ~RIsZero(info.height)
                IN  <<result.width_px, result.height_px>> =
                        IF intrinsic THEN <<info.width, info.height>>
                        ELSE <<args.ocr_page.width_px, args.ocr_page.height_px>>


(***************************************************************************)
(* Mapping failures are per page, not per entry (checked under SpecOverlay)*)
(***************************************************************************)
\* what a MappingConfig alone says about failure: a canvas side <= 0, a zero
\* scale factor, or a rotation that is no multiple of 90
ConfigRejects(config) ==
    \/ RLe(config.width_px, R(0)) \/ RLe(config.height_px, R(0))
    \/ RIsZero(RMul(RDiv(RSub(config.image_rect.x1, config.image_rect.x0), config.width_px),
                    config.scale_corr[1]))
    \/ RIsZero(RMul(RDiv(RSub(config.image_rect.y1, config.image_rect.y0), config.height_px),
                    config.scale_corr[2]))
    \/ config.rotation % 360 \notin {0, 90, 180, 270}

PageConfig == MappingFor(DocPage, alignment, Settings)

NonBlankEntries ==
    {i \in 1..Len(entries) :
        normalize_token(entries[i].text, Settings.keep_spaces, Settings.cjk_join).value # <<>>}

\* C29: whether map_bbox_to_pdf fails follows from the page's MappingConfig
\* alone, for every bbox; so on a page either every entry with non-empty
\* normalized text is inserted or none of them is.
C29_MappingFailsPerPage ==
    /\ InRun("entries") =>
          \A b \in BBoxes \cup {entries[i].bbox : i \in 1..Len(entries)} :
              (map_bbox_to_pdf(b, Settings.baseline_ratio, Settings.font_scale,
                               PageConfig).kind = "ValueError")
                  <=> ConfigRejects(PageConfig)
    /\ PageFinished =>
          Len(InsertedPairs(page_index)) =
              IF ConfigRejects(PageConfig) THEN 0 ELSE Cardinality(NonBlankEntries)

\* a page of three non-blank lines under a zero scale correction: none inserted
C29_Witness ==
    /\ PageFinished
    /\ Len(entries) = 3
    /\ Cardinality(NonBlankEntries) = 3
    /\ Settings.scale_corr = <<R(1), R(0)>>
    /\ inserted = <<>>


(***************************************************************************)
(* An alignment error ends the run (checked under SpecOverlay).            *)
(***************************************************************************)
AlignmentFails ==
    /\ InRun("pages")
    /\ page_index < Len(args.doc)
    /\ OcrPage.some
    /\ _determine_alignment(DocPage, OcrPage.value, Settings).kind = "ValueError"

NothingWritten ==
    /\ files = [tmp |-> "absent", out |-> "previous", dump |-> "absent"]
    /\ io = <<>>

\* C30: when alignment resolution raises on a page the run ends there with
\* that error, whatever was inserted on earlier pages: no temporary file, no
\* output file and no diagnostic dump is written, the destination keeps its
\* previous content, and no later step writes anything.
C30_AlignmentErrorAborts ==
    [][/\ AlignmentFails =>
            /\ pc' = "raised" /\ result' = ValueError
            /\ inserted' = inserted
            /\ NothingWritten'
       /\ (InRun("raised") /\ result = ValueError) => (NothingWritten /\ UNCHANGED vars)]_vars

\* page 0 got its text, page 1 has a zero canvas width: the run has raised
C30_Witness ==
    /\ InRun("raised") /\ result = ValueError
    /\ page_index = 1
    /\ Len(inserted) = 1 /\ inserted[1].page = 0
    /\ NothingWritten

(***************************************************************************)
(* cli.py: the command and its option callbacks, main and                  *)
(* _load_or_run_ocr, followed by the overlay run.                          *)
(***************************************************************************)
UsageError == [kind |-> "UsageError"]
ClickException == [kind |-> "ClickException"]

\* --ocr-json not given
NoJson == [some |-> FALSE, value |-> JsonFile(FALSE, TRUE, <<>>)]

\* what the OCR engine recognizes on a page: the word "Test" on one line
RecognizedWords == TestWords
RecognizedLines == <<OCRLine(TextTest, TestWords[1].bbox, TestWords)>>

\* pix.width, pix.height: the page rendered at dpi / 72, in whole pixels
PixWidth(page, dpi) == R((RectWidth(page.rect)[1] * dpi) \div (72 * RectWidth(page.rect)[2]))
PixHeight(page, dpi) == R((RectHeight(page.rect)[1] * dpi) \div (72 * RectHeight(page.rect)[2]))

\* count = min(total_pages, max_pages) if max_pages else total_pages
PageCount(doc, max_pages) ==
    IF max_pages.some /\ max_pages.value # 0 /\ max_pages.value < Len(doc)
    THEN max_pages.value
    ELSE Len(doc)

\* run_winrt_ocr(pdf_path, dpi, language, max_pages) with a working engine
run_winrt_ocr(doc, dpi, max_pages) ==
    [i \in 1..PageCount(doc, max_pages) |->
        OCRPage(i - 1, PixWidth(doc[i], dpi), PixHeight(doc[i], dpi), Some(doc[i].rotation),
                RecognizedWords, RecognizedLines)]

\* click.BadParameter, a click.UsageError: the command ends with exit status 2
BadParameter(message) == [kind |-> "BadParameter", message |-> message]

\* the characters of an option text
COMMA == 44
MINUS == 45
PLUS == 43
DOT == 46

\* value.split(","): the pieces between the commas
RECURSIVE SplitAtCommas(_, _, _)
SplitAtCommas(chars, i, piece) ==
    IF i > Len(chars) THEN <<piece>>
    ELSE IF chars[i] = COMMA THEN <<piece>> \o SplitAtCommas(chars, i + 1, <<>>)
    ELSE SplitAtCommas(chars, i + 1, Append(piece, chars[i]))

\* the digits of a number text read as a fraction: the numerator takes every
\* digit, the denominator a factor of ten for each digit after the point
RECURSIVE FloatDigits(_, _, _, _)
FloatDigits(body, i, acc, after) ==
    IF i > Len(body) THEN acc
    ELSE IF body[i] = DOT THEN FloatDigits(body, i + 1, acc, TRUE)
    ELSE FloatDigits(body, i + 1,
                     <<10 * acc[1] + (body[i] - 48), IF after THEN 10 * acc[2] ELSE acc[2]>>,
                     after)

\* float(s) on texts of signs, digits and points: an optional sign, then digits
\* with at most one point and at least one digit; anything else is a ValueError
float(chars) ==
    LET signed == chars # <<>> /\ chars[1] \in {PLUS, MINUS}
        body == IF signed THEN Tail(chars) ELSE chars
        digits == {i \in 1..Len(body) : 48 <= body[i] /\ body[i] <= 57}
        dots == {i \in 1..Len(body) : body[i] = DOT}
        number == FloatDigits(body, 1, <<0, 1>>, FALSE)
    IN  IF digits \cup dots = 1..Len(body) /\ Cardinality(dots) <= 1 /\ digits # {}
        THEN [kind |-> "float",
              value |-> Rat((IF signed /\ chars[1] = MINUS THEN -1 ELSE 1) * number[1], number[2])]
        ELSE ValueError

\* def _parse_pair(value, ctx, param): the first argument is split; whatever
\* fails inside the try (no split method, not two pieces, float refusing a
\* piece) becomes BadParameter
_parse_pair(value, ctx, param) ==
    LET bad == BadParameter("Expected two comma-separated numbers, e.g. 0.0,0.0")
        pieces == SplitAtCommas(value.value, 1, <<>>)
    IN  IF value.kind # "str" THEN bad
        ELSE IF Len(pieces) = 2 /\ float(pieces[1]).kind = "float" /\ float(pieces[2]).kind = "float"
        THEN [kind |-> "pair", value |-> <<float(pieces[1]).value, float(pieces[2]).value>>]
        ELSE bad

\* def _parse_scale(value, ctx, param)
_parse_scale(value, ctx, param) ==
    LET pair == _parse_pair(value, ctx, param)
    IN  IF pair.kind = "BadParameter" THEN pair
        ELSE IF RIsZero(pair.value[1]) \/ RIsZero(pair.value[2]) THEN BadParameter("Scale corrections must be non-zero.")
        ELSE pair

\* --version is eager: _version_callback(ctx, param, value) echoes the version
\* and calls ctx.exit() before any other option is processed
ShowVersion ==
    /\ call = "main" /\ pc = "invoked"
    /\ args.eager = "--version"
    /\ pc' = "exited"
    /\ result' = [kind |-> "exit", code |-> 0, output |-> "pdf_text_overlay 0.1.0"]
    /\ UNCHANGED <<call, args>>
    /\ UNCHANGED runVars

\* -h / --help (help_option_names) is eager too: the usage text, exit status 0
ShowHelp ==
    /\ call = "main" /\ pc = "invoked"
    /\ args.eager = "--help"
    /\ pc' = "exited"
    /\ result' = [kind |-> "exit", code |-> 0, output |-> "Usage"]
    /\ UNCHANGED <<call, args>>
    /\ UNCHANGED runVars

\* click processes the options: each callback is called as
\* callback(ctx, param, value), for a default as for a given text, so
\* _parse_pair and _parse_scale receive the context, which is no str, as
\* their first argument. Only when both return does main's body start, with
\* what they returned.
OptionCallbacks ==
    /\ call = "main" /\ pc = "invoked"
    /\ args.eager = "none"
    /\ LET ctx == [kind |-> "Context"]
           offset == _parse_pair(ctx, [kind |-> "Option", name |-> "offset_pt"],
                                 Str(args.offset_pt))
           scale == _parse_scale(ctx, [kind |-> "Option", name |-> "scale_corr"],
                                 Str(args.scale_corr))
       IN  IF offset.kind = "BadParameter" THEN Raise(offset) /\ args' = args
           ELSE IF scale.kind = "BadParameter" THEN Raise(scale) /\ args' = args
           ELSE /\ pc' = "called"
                /\ result' = NoResult
                /\ args' = [pdf |-> args.pdf, ocr_json |-> args.ocr_json, winrt |-> args.winrt,
                            max_pages |-> args.max_pages, dump_ocr_json |-> args.dump_ocr_json,
                            settings |-> [args.settings EXCEPT !.offset_pt = offset.value,
                                                               !.scale_corr = scale.value]]
    /\ UNCHANGED call
    /\ UNCHANGED runVars

\* main's body has been entered with its parameters bound
InMain(at) == call = "main" /\ pc = at

\* lines 59-61: pages = load_ocr_json(ocr_json); max_pages is not looked at
LoadOcrJson ==
    /\ InMain("called")
    /\ args.ocr_json.some
    /\ result' = load_ocr_json(args.ocr_json.value)
    /\ pc' = IF result'.kind = "pages" THEN "loaded" ELSE "raised"
    /\ UNCHANGED <<call, args>>
    /\ UNCHANGED runVars

\* lines 63-67: no snapshot and no WinRT OCR on this system
WinRtMissing ==
    /\ InMain("called")
    /\ ~args.ocr_json.some
    /\ args.winrt = "unavailable"
    /\ Raise(UsageError)
    /\ UNCHANGED <<call, args>>
    /\ UNCHANGED runVars

\* lines 69-72: run_winrt_ocr raises WinRTUnavailableError (no OCR language)
WinRtOcrFails ==
    /\ InMain("called")
    /\ ~args.ocr_json.some
    /\ args.winrt = "no language"
    /\ Raise(UsageError)
    /\ UNCHANGED <<call, args>>
    /\ UNCHANGED runVars

\* lines 69-74: the live OCR run, and the snapshot of it when asked for
RunWinRtOcr ==
    /\ InMain("called")
    /\ ~args.ocr_json.some
    /\ args.winrt = "ready"
    /\ result' = [kind |-> "pages",
                  value |-> run_winrt_ocr(args.pdf, args.settings.dpi.value, args.max_pages)]
    /\ io' = IF args.dump_ocr_json THEN Append(io, "write ocr json") ELSE io
    /\ pc' = "loaded"
    /\ UNCHANGED <<call, args, page_index, alignment, entries, entry_idx, samples, calib_log,
                   inserted, debug_payload, files>>

\* if not pages: raise click.ClickException(...)
NoOcrData ==
    /\ InMain("loaded")
    /\ result.value = <<>>
    /\ Raise(ClickException)
    /\ UNCHANGED <<call, args>>
    /\ UNCHANGED runVars

\* lines 160-183: the settings are built and apply_text_overlay is called; the
\* arguments of main stay on the stack as args.cli
CallApplyTextOverlay ==
    /\ InMain("loaded")
    /\ result.value # <<>>
    /\ call' = "apply_text_overlay"
    /\ pc' = "start"
    /\ args' = [doc |-> args.pdf, pages |-> result.value, settings |-> args.settings,
                cli |-> args]
    /\ result' = NoResult
    /\ UNCHANGED runVars

CliNext ==
    \/ ShowVersion
    \/ ShowHelp
    \/ OptionCallbacks
    \/ LoadOcrJson
    \/ WinRtMissing
    \/ WinRtOcrFails
    \/ RunWinRtOcr
    \/ NoOcrData
    \/ CallApplyTextOverlay
    \/ OverlayNext

(***************************************************************************)
(* The command line exercised on bounded documents, snapshots and options. *)
(***************************************************************************)
\* one page entry of a snapshot: the word "Test", a blank word, and one line
SnapshotEntry(index) ==
    JEntry(Some(index), Some(R(100)), NoNumber, Some(R(100)), NoNumber, None,
           <<JWordOf(TestWords[1]), JWord(Some(TextBlank), Some(LineBox(2)))>>,
           <<JLine(Some(TextTest), Some(TestWords[1].bbox), <<JWordOf(TestWords[1])>>)>>)

\* snapshots: one entry per page index below n
SnapshotOf(n) == JsonFile(TRUE, TRUE, [i \in 1..n |-> SnapshotEntry(i - 1)])

Snapshots ==
    {SnapshotOf(n) : n \in 0..MaxDocPages}
    \cup {JsonFile(TRUE, TRUE, <<SnapshotEntry(1)>>),
          JsonFile(TRUE, FALSE, <<>>),
          JsonFile(TRUE, TRUE, <<JEntry(Some(0), Some(R(0)), NoNumber, Some(R(100)), NoNumber,
                                       None, <<>>, <<>>)>>)}

MaxPagesOptions == {None} \cup {Some(n) : n \in 1..MaxDocPages}

\* --dpi is always set (72 here: one pixel per point); --method is invisible or opacity
CliSettings ==
    {[DefaultSettings EXCEPT !.dpi = Some(72), !.align = a, !.debug_overlay = dbg,
                             !.visible_qa = vq, !.pdfa = p, !.dump_debug_json = dj] :
        a \in {ALIGN_PAGE, Align("image-rect:", <<Num(10), Num(20), Num(10), Num(700)>>),
               Align("image:", <<NotANumber>>)},
        dbg \in BOOLEAN, vq \in BOOLEAN, p \in BOOLEAN, dj \in BOOLEAN}

\* the texts given for --offset-pt and --scale-corr (the defaults first)
OffsetTexts == {<<48, COMMA, 48>>, <<49, COMMA, 50>>, <<MINUS, 49, DOT, 53, COMMA, 50>>,
                <<49>>}
ScaleTexts == {<<49, COMMA, 49>>, <<50, COMMA, 50>>, <<48, COMMA, 49>>}

\* Either the command is invoked from its command line (--pdf and --ocr-json
\* name files that exist; eager is the first eager option given, if any), or
\* the function main is called with its parameters (main.callback(...)), the
\* offset and the scale correction already pairs of numbers. No command line
\* leads to the second case, because OptionCallbacks raises for every one.
CliInit ==
    /\ RunIdle
    /\ result = NoResult
    /\ call = "main"
    /\ \/ /\ pc = "invoked"
          /\ args \in [pdf : Docs, ocr_json : {Some(SnapshotOf(1)), NoJson},
                       winrt : {"unavailable"}, max_pages : MaxPagesOptions,
                       dump_ocr_json : {FALSE},
                       settings : {[DefaultSettings EXCEPT !.dpi = Some(72),
                                                           !.align = ALIGN_PAGE]},
                       eager : {"none", "--version", "--help"},
                       offset_pt : OffsetTexts, scale_corr : ScaleTexts]
       \/ /\ pc = "called"
          /\ \/ args \in [pdf : Docs, ocr_json : {Some(f) : f \in Snapshots},
                          winrt : {"unavailable"}, max_pages : MaxPagesOptions,
                          dump_ocr_json : {FALSE}, settings : CliSettings]
             \/ args \in [pdf : Docs, ocr_json : {NoJson},
                          winrt : {"unavailable", "no language", "ready"},
                          max_pages : MaxPagesOptions, dump_ocr_json : BOOLEAN,
                          settings : CliSettings]

SpecCli == CliInit /\ [][CliNext]_vars

(***************************************************************************)
(* Properties of the page limit (checked under SpecCli).                   *)
(***************************************************************************)
PagesWithText == {inserted[i].page : i \in 1..Len(inserted)}

\* C21: with --max-pages N the OCR page list handed to the overlay has at
\* most N pages, and at most N pages receive overlay text, whether the
\* pages come from a live OCR run or from an OCR JSON snapshot.
C21_MaxPagesLimitsOverlay ==
    (call = "apply_text_overlay" /\ args.cli.max_pages.some) =>
        /\ Len(args.pages) <= args.cli.max_pages.value
        /\ Cardinality(PagesWithText) <= args.cli.max_pages.value

====
